---- MODULE Spec2Model ----
(***************************************************************************)
(* Constraint assembly of the ZEN-garden capacity-expansion platform.      *)
(*                                                                         *)
(* The model follows the assembly pipeline of one optimization problem:    *)
(* the input data (index sets, system settings, parameters) are fixed at   *)
(* construction, then the rule methods of CarrierRules / TechnologyRules   *)
(* add their constraints to the model one after the other.  A constraint   *)
(* is kept as the set of its rows; a row is the index tuple it stands for, *)
(* the terms of its left-hand side (variable and coefficient), its sign    *)
(* and its right-hand side.  Operational time is vectorised in the source  *)
(* (every row holds for each operational step alike) and is not a          *)
(* coordinate of the rows here.                                            *)
(***************************************************************************)
EXTENDS Integers, Sequences, FiniteSets, TLC

VARIABLES
    sets,           \* optimization_setup.sets: the indexed input sets
    system,         \* optimization_setup.system: scalar settings
    parameters,     \* optimization_setup.parameters: parameter arrays
    variables,      \* variable name -> active index tuples, for every variable present
    constraints,    \* constraint name -> rows, for every constraint present
    docs,           \* Constraint.docs: names registered with the builder
    objective,      \* the terms of the objective of the pyomo model
    listOfElements,     \* TransportTechnology.listOfElements (pyomo model)
    dictReversedEdges,  \* TransportTechnology.dictReversedEdges (pyomo model)
    dict_elements,  \* optimization_setup.get_all_elements(Element): the elements in order
    tsa,            \* the attributes of the TimeSeriesAggregation object
    energy_system,  \* energy_system.time_steps: the sequences of the time-step model
    indexSets,      \* the IndexSet object: sets, docs and index_sets
    componentDocs,  \* Variable.docs and Constraint.docs: name -> doc string
    calls,          \* the last call of the builder and the latest add_set call of every name
    pc              \* position of the assembly pipeline

vars == <<sets, system, parameters, variables, constraints, docs, objective, listOfElements, dictReversedEdges,
          dict_elements, tsa, energy_system, indexSets, componentDocs, calls, pc>>

(***************************************************************************)
(* Bounds of the model                                                     *)
(***************************************************************************)
NumYears == 3
MaxLifetime == 5
MaxInterval == 2
MaxConstructionTime == 4
StepsPerYear == 2

(***************************************************************************)
(* Fixed index sets of the modelled energy system                          *)
(***************************************************************************)
set_carriers == {"c1", "c2"}
set_nodes == {"n1", "n2", "n3"}
set_edges == {"n1-n2", "n2-n1", "n2-n3"}
set_conversion_technologies == {"conv1", "conv2"}
set_transport_technologies == {"pipe"}
set_storage_technologies == {"stor"}
set_technologies ==
    set_conversion_technologies \cup set_transport_technologies \cup set_storage_technologies
set_location == set_nodes \cup set_edges
set_capacity_types == {"power", "energy"}

\* start and end node of every edge
set_nodes_on_edges ==
    [e \in set_edges |->
        CASE e = "n1-n2" -> <<"n1", "n2">>
          [] e = "n2-n1" -> <<"n2", "n1">>
          [] e = "n2-n3" -> <<"n2", "n3">>]

\* edges connected to a node: "in" = edges that end in the node, "out" = edges that start in it
calculate_connected_edges(node, direction) ==
    IF direction = "out"
    THEN {e \in set_edges : set_nodes_on_edges[e][1] = node}
    ELSE {e \in set_edges : set_nodes_on_edges[e][2] = node}

(***************************************************************************)
(* Generic helpers                                                         *)
(***************************************************************************)
Max(S) == CHOOSE x \in S : \A y \in S : y <= x
Min(S) == CHOOSE x \in S : \A y \in S : x <= y

Abs(x) == IF x < 0 THEN -x ELSE x
Sign(x) == IF x < 0 THEN -1 ELSE IF x > 0 THEN 1 ELSE 0

RECURSIVE Gcd(_, _)
Gcd(a, b) == IF b = 0 THEN a ELSE Gcd(b, a % b)

\* membership in a python list kept as a sequence
InList(x, l) == \E i \in DOMAIN l : l[i] = x
Range(l) == {l[i] : i \in DOMAIN l}

(***************************************************************************)
(* Floating-point values.  A value is a fraction n/d in lowest terms with  *)
(* d > 0, or one of the IEEE specials: +inf = 1/0, -inf = -1/0 and         *)
(* NaN = 0/0.  The operators follow numpy: inf * 0 = NaN, inf - inf = NaN, *)
(* NaN propagates, and sums with skipna leave NaN entries out.             *)
(***************************************************************************)
Frac(n, d) ==
    IF d = 0 THEN [n |-> Sign(n), d |-> 0]
    ELSE LET g == Gcd(Abs(n), Abs(d))
         IN [n |-> Sign(d) * (n \div g), d |-> Abs(d) \div g]

Num(i) == [n |-> i, d |-> 1]
Zero == Num(0)
One == Num(1)
Inf == [n |-> 1, d |-> 0]
NegInf == [n |-> -1, d |-> 0]
NaN == [n |-> 0, d |-> 0]

IsNaN(a) == a.d = 0 /\ a.n = 0
IsInf(a) == a.d = 0 /\ a.n # 0
IsFinite(a) == a.d # 0

XNeg(a) == [n |-> -a.n, d |-> a.d]

XAdd(a, b) ==
    IF a.d = 0 /\ b.d = 0 THEN (IF a = b THEN a ELSE NaN)
    ELSE IF a.d = 0 THEN a
    ELSE IF b.d = 0 THEN b
    ELSE LET g == Gcd(a.d, b.d)
         IN Frac(a.n * (b.d \div g) + b.n * (a.d \div g), (a.d \div g) * b.d)

XSub(a, b) == XAdd(a, XNeg(b))

XMul(a, b) ==
    IF a.d = 0 \/ b.d = 0 THEN [n |-> Sign(a.n) * Sign(b.n), d |-> 0]
    ELSE LET g1 == Gcd(Abs(a.n), b.d)
             g2 == Gcd(Abs(b.n), a.d)
         IN Frac((a.n \div g1) * (b.n \div g2), (a.d \div g2) * (b.d \div g1))

XInv(a) == IF a.d = 0 THEN (IF a.n = 0 THEN NaN ELSE Zero) ELSE Frac(a.d, a.n)

RECURSIVE XPowNat(_, _)
XPowNat(a, e) == IF e = 0 THEN One ELSE XMul(a, XPowNat(a, e - 1))

\* a ** e for an integer exponent e
XPow(a, e) == IF e >= 0 THEN XPowNat(a, e) ELSE XInv(XPowNat(a, -e))

\* a <= b on finite values and infinities
XLeq(a, b) ==
    IF IsNaN(a) \/ IsNaN(b) THEN FALSE
    ELSE IF a.d = 0 /\ b.d = 0 THEN a.n <= b.n
    ELSE IF a.d = 0 THEN a.n < 0
    ELSE IF b.d = 0 THEN b.n > 0
    ELSE a.n * b.d <= b.n * a.d

RECURSIVE XSum(_, _)
\* sum of f[x] over the finite set S (NaN propagates)
XSum(S, f) ==
    IF S = {} THEN Zero
    ELSE LET x == CHOOSE y \in S : TRUE IN XAdd(f[x], XSum(S \ {x}, f))

\* xarray .sum(dim) with the default skipna: NaN entries are left out,
\* a sum without any entry left is 0
XSumSkipNa(S, f) ==
    LET T == {x \in S : ~IsNaN(f[x])} IN XSum(T, f)

\* a left-hand-side term: coefficient times variable name[tech, capacity_type, carrier, loc, year]
\* ("-" and -1 stand for a coordinate the variable does not have)
Term(name, tech, capacity_type, carrier, loc, year, coef) ==
    [var |-> name, tech |-> tech, capacity_type |-> capacity_type, carrier |-> carrier,
     loc |-> loc, year |-> year, coef |-> coef]

\* the terms of a row that refer to one variable
TermsOf(row, name, tech, capacity_type, carrier, loc, year) ==
    {t \in row.lhs : t.var = name /\ t.tech = tech /\ t.capacity_type = capacity_type
                     /\ t.carrier = carrier /\ t.loc = loc /\ t.year = year}

\* the coefficient with which a variable enters a row (0 if it does not appear)
Coef(row, name, tech, capacity_type, carrier, loc, year) ==
    LET ts == TermsOf(row, name, tech, capacity_type, carrier, loc, year)
    IN XSum(ts, [t \in ts |-> t.coef])

\* a row of a constraint: the index tuple it belongs to, lhs terms, sign, rhs
Row(tech, capacity_type, carrier, loc, year, lhs, sign, rhs) ==
    [tech |-> tech, capacity_type |-> capacity_type, carrier |-> carrier, loc |-> loc,
     year |-> year, lhs |-> lhs, sign |-> sign, rhs |-> rhs]

(***************************************************************************)
(* Carrier: nodal energy balance                                           *)
(* (CarrierRules.get_constraint_nodal_energy_balance)                      *)
(***************************************************************************)
CarrierSeq == <<"c1", "c2">>
NodeSeq == <<"n1", "n2", "n3">>

\* the unique (carrier, node) pairs of the custom set
\* [set_carriers, set_nodes, set_time_steps_operation], in enumeration order
CarrierNodeIndex ==
    [i \in 1..(Len(CarrierSeq) * Len(NodeSeq)) |->
        <<CarrierSeq[((i - 1) \div Len(NodeSeq)) + 1], NodeSeq[((i - 1) % Len(NodeSeq)) + 1]>>]

\* enumerate() numbers the pairs from 0
IndexNums == 0..(Len(CarrierNodeIndex) - 1)
IndexCarrier(num) == CarrierNodeIndex[num + 1][1]
IndexNode(num) == CarrierNodeIndex[num + 1][2]

\* a group array is initialised with the dummy -1; every assignment in the loop
\* overwrites the entry, so the entry ends as the last num that assigned it
GroupValue(nums) == IF nums = {} THEN -1 ELSE Max(nums)

\* variant: the input group is filled for every carrier, whether or not it is an
\* input carrier of the technology
carrier_conversion_in_group_all_carriers(s, tech, carrier, node) ==
    GroupValue({num \in IndexNums : IndexCarrier(num) = carrier /\ IndexNode(num) = node})

carrier_conversion_in_group(s, tech, carrier, node) ==
    GroupValue({num \in IndexNums :
        /\ IndexCarrier(num) = carrier /\ IndexNode(num) = node
        /\ carrier \in s.set_input_carriers[tech]})

carrier_conversion_out_group(s, tech, carrier, node) ==
    GroupValue({num \in IndexNums :
        /\ IndexCarrier(num) = carrier /\ IndexNode(num) = node
        /\ carrier \in s.set_output_carriers[tech]})

carrier_flow_in_group(s, tech, edge) ==
    GroupValue({num \in IndexNums :
        /\ InList(IndexCarrier(num), s.set_reference_carriers[tech])
        /\ edge \in calculate_connected_edges(IndexNode(num), "in")})

carrier_flow_out_group(s, tech, edge) ==
    GroupValue({num \in IndexNums :
        /\ InList(IndexCarrier(num), s.set_reference_carriers[tech])
        /\ edge \in calculate_connected_edges(IndexNode(num), "out")})

\* the discharge and the charge group are filled by the same two assignments
carrier_flow_storage_group(s, tech, node) ==
    GroupValue({num \in IndexNums :
        /\ InList(IndexCarrier(num), s.set_reference_carriers[tech])
        /\ IndexNode(num) = node})

carrier_import_group(carrier, node) ==
    GroupValue({num \in IndexNums : IndexCarrier(num) = carrier /\ IndexNode(num) = node})

\* left-hand side of the balance of group num: the grouped sums of the eight
\* (expression, group) arguments, merged
NodalEnergyBalanceLhs(s, num) ==
    {Term("output_flow", h, "-", c, n, -1, One) :
        <<h, c, n>> \in {x \in set_conversion_technologies \X set_carriers \X set_nodes :
                            carrier_conversion_out_group(s, x[1], x[2], x[3]) = num}}
    \cup
    {Term("input_flow", h, "-", c, n, -1, XNeg(One)) :
        <<h, c, n>> \in {x \in set_conversion_technologies \X set_carriers \X set_nodes :
                            carrier_conversion_in_group(s, x[1], x[2], x[3]) = num}}
    \cup
    {Term("carrier_flow", h, "-", "-", e, -1, One) :
        <<h, e>> \in {x \in set_transport_technologies \X set_edges :
                            carrier_flow_out_group(s, x[1], x[2]) = num}}
    \cup
    {Term("carrier_loss", h, "-", "-", e, -1, XNeg(One)) :
        <<h, e>> \in {x \in set_transport_technologies \X set_edges :
                            carrier_flow_out_group(s, x[1], x[2]) = num}}
    \cup
    {Term("carrier_flow", h, "-", "-", e, -1, XNeg(One)) :
        <<h, e>> \in {x \in set_transport_technologies \X set_edges :
                            carrier_flow_in_group(s, x[1], x[2]) = num}}
    \cup
    {Term("carrier_flow_discharge", h, "-", "-", n, -1, One) :
        <<h, n>> \in {x \in set_storage_technologies \X set_nodes :
                            carrier_flow_storage_group(s, x[1], x[2]) = num}}
    \cup
    {Term("carrier_flow_charge", h, "-", "-", n, -1, XNeg(One)) :
        <<h, n>> \in {x \in set_storage_technologies \X set_nodes :
                            carrier_flow_storage_group(s, x[1], x[2]) = num}}
    \cup
    {Term("import_carrier_flow", "-", "-", c, n, -1, One) :
        <<c, n>> \in {x \in set_carriers \X set_nodes : carrier_import_group(x[1], x[2]) = num}}
    \cup
    {Term("export_carrier_flow", "-", "-", c, n, -1, XNeg(One)) :
        <<c, n>> \in {x \in set_carriers \X set_nodes : carrier_import_group(x[1], x[2]) = num}}

\* right-hand side: demand_carrier summed over the (single) member of group num
NodalEnergyBalanceRhs(p, num) ==
    LET members == {x \in set_carriers \X set_nodes : carrier_import_group(x[1], x[2]) = num}
    IN XSumSkipNa(members, [x \in members |-> p.demand_carrier[x[1]][x[2]]])

\* the rows of constraint_nodal_energy_balance, one per (carrier, node)
get_constraint_nodal_energy_balance(s, p) ==
    {Row("-", "-", IndexCarrier(num), IndexNode(num), -1,
         NodalEnergyBalanceLhs(s, num), "==", NodalEnergyBalanceRhs(p, num)) : num \in IndexNums}

(***************************************************************************)
(* Technology: index sets and bookkeeping of lifetimes                     *)
(***************************************************************************)
\* capacity types of a technology: energy capacity exists for storage only
CapacityTypesOf(tech) ==
    IF tech \in set_storage_technologies THEN {"power", "energy"} ELSE {"power"}

\* locations of a technology: edges for transport, nodes otherwise
LocationsOf(tech) ==
    IF tech \in set_transport_technologies THEN set_edges ELSE set_nodes

\* the custom set [set_technologies, set_capacity_types, set_location, set_time_steps_yearly]
TechnologyIndex(s) ==
    {x \in set_technologies \X set_capacity_types \X set_location \X Range(s.set_time_steps_yearly) :
        x[2] \in CapacityTypesOf(x[1]) /\ x[3] \in LocationsOf(x[1])}

\* a variable defined on the technology index exists at valid tuples only
VarExists(s, tech, capacity_type, loc, year) ==
    <<tech, capacity_type, loc, year>> \in TechnologyIndex(s)

get_if_capacity_still_existing(s, sys, p, tech, year, loc, id_capacity_existing) ==
    LET lifetime_existing == p.lifetime_existing[tech][loc][id_capacity_existing]
        lifetime == p.lifetime[tech]
        delta_lifetime == lifetime_existing - lifetime
        current_year_horizon == s.set_time_steps_yearly[1]
    IN IF delta_lifetime >= 0
       THEN (year - current_year_horizon) * sys.interval_between_years >= delta_lifetime
       ELSE (year - current_year_horizon + 1) * sys.interval_between_years <= lifetime_existing

get_available_existing_quantity(s, sys, p, tech, capacity_type, loc, year) ==
    LET ids == {i \in s.set_technologies_existing[tech] :
                    get_if_capacity_still_existing(s, sys, p, tech, year, loc, i)}
    IN XSum(ids, [i \in ids |-> Num(p.capacity_existing[tech][capacity_type][loc][i])])

get_first_lifetime_time_step(sys, p, tech, year) ==
    LET del_lifetime == (p.lifetime[tech] \div sys.interval_between_years) - 1
    IN year - del_lifetime

get_lifetime_range(s, sys, p, tech, year) ==
    LET first_lifetime_year ==
            Max({get_first_lifetime_time_step(sys, p, tech, year), s.set_time_steps_yearly[1]})
    IN first_lifetime_year..year

\* ceil(a / b) for a >= 0, b > 0
CeilDiv(a, b) == (a + b - 1) \div b

\* variant: the construction time is rounded down to whole yearly steps
get_investment_time_step_floor(sys, p, tech, year) ==
    LET del_construction_time == p.construction_time[tech] \div sys.interval_between_years
    IN year - del_construction_time

get_investment_time_step(sys, p, tech, year) ==
    LET del_construction_time == CeilDiv(p.construction_time[tech], sys.interval_between_years)
    IN year - del_construction_time

(***************************************************************************)
(* TechnologyRules: block constraints                                      *)
(***************************************************************************)
\* capacity <= max(existing_capacities, capacity_limit), skipped where the maximum is +inf
constraint_technology_capacity_limit(s, sys, p) ==
    LET maximum_capacity_limit(x) ==
            LET existing == get_available_existing_quantity(s, sys, p, x[1], x[2], x[3], x[4])
                limit == p.capacity_limit[x[1]][x[2]][x[3]][x[4]]
            IN IF XLeq(limit, existing) THEN existing ELSE limit
    IN {Row(x[1], x[2], "-", x[3], x[4],
            {Term("capacity", x[1], x[2], "-", x[3], x[4], One)},
            "<=", maximum_capacity_limit(x)) :
        x \in {z \in TechnologyIndex(s) : maximum_capacity_limit(z) # Inf}}

\* the mask of constraint_technology_min_capacity_addition: the pairs (technology,
\* capacity type) of the index with a minimum addition that is not zero
min_capacity_addition_mask(s, p) ==
    {tk \in {<<x[1], x[2]>> : x \in TechnologyIndex(s)} :
        p.capacity_addition_min[tk[1]][tk[2]] # Zero}

\* variant: the constraint is written for every pair of the index, whatever the minimum
constraint_technology_min_capacity_addition_every_pair(s, p) ==
    {Row(x[1], x[2], "-", x[3], x[4],
         {Term("technology_installation", x[1], x[2], "-", x[3], x[4],
               p.capacity_addition_min[x[1]][x[2]]),
          Term("capacity_addition", x[1], x[2], "-", x[3], x[4], XNeg(One))},
         "<=", Zero) : x \in TechnologyIndex(s)}

\* capacity_addition_min * technology_installation - capacity_addition <= 0 where the
\* mask is true
constraint_technology_min_capacity_addition(s, p) ==
    {Row(x[1], x[2], "-", x[3], x[4],
         {Term("technology_installation", x[1], x[2], "-", x[3], x[4],
               p.capacity_addition_min[x[1]][x[2]]),
          Term("capacity_addition", x[1], x[2], "-", x[3], x[4], XNeg(One))},
         "<=", Zero) :
        x \in {z \in TechnologyIndex(s) : <<z[1], z[2]>> \in min_capacity_addition_mask(s, p)}}

\* the capital expenditures of a transport technology (constraintCapexTransportTechnologyRule
\* with the names of Technology.construct_vars): cost_capex == capacity_addition *
\* capex_specific_transport + technology_installation * distance * capex_per_distance_transport
constraint_transport_technology_capex(s, p) ==
    {Row(x[1], "power", "-", x[3], x[4],
         {Term("cost_capex", x[1], "power", "-", x[3], x[4], One),
          Term("capacity_addition", x[1], "power", "-", x[3], x[4],
               XNeg(p.capex_specific_transport[x[1]][x[3]])),
          Term("technology_installation", x[1], "power", "-", x[3], x[4],
               XNeg(XMul(p.distance[x[1]][x[3]], p.capex_per_distance_transport[x[1]][x[3]])))},
         "==", Zero) :
        x \in {z \in TechnologyIndex(s) : z[1] \in set_transport_technologies /\ z[2] = "power"}}

\* variant: a maximum addition of zero emits no constraint at all
constraint_technology_max_capacity_addition_skip_zero(s, p) ==
    LET pairs == {<<x[1], x[2]>> : x \in TechnologyIndex(s)}
        emitted == {tk \in pairs : p.capacity_addition_max[tk[1]][tk[2]] \notin {Inf, Zero}}
    IN {Row(x[1], x[2], "-", x[3], x[4],
            {Term("capacity_addition", x[1], x[2], "-", x[3], x[4], XNeg(One)),
             Term("technology_installation", x[1], x[2], "-", x[3], x[4],
                  p.capacity_addition_max[x[1]][x[2]])},
            ">=", Zero) :
        x \in {z \in TechnologyIndex(s) : <<z[1], z[2]>> \in emitted}}

constraint_technology_max_capacity_addition(s, p) ==
    LET pairs == {<<x[1], x[2]>> : x \in TechnologyIndex(s)}
        emitted == {tk \in pairs : p.capacity_addition_max[tk[1]][tk[2]] # Inf}
        term_installation(h, k, loc, y) ==
            IF ~IsNaN(p.capacity_addition_max[h][k]) /\ p.capacity_addition_max[h][k] # Zero
            THEN {Term("technology_installation", h, k, "-", loc, y, p.capacity_addition_max[h][k])}
            ELSE {}
    IN {Row(x[1], x[2], "-", x[3], x[4],
            {Term("capacity_addition", x[1], x[2], "-", x[3], x[4], XNeg(One))}
                \cup term_installation(x[1], x[2], x[3], x[4]),
            ">=", Zero) :
        x \in {z \in TechnologyIndex(s) : <<z[1], z[2]>> \in emitted}}

constraint_technology_construction_time(s, sys, p) ==
    LET investment_time(h, y) == get_investment_time_step(sys, p, h, y)
        mask_current_time_steps(h, y) == InList(investment_time(h, y), s.set_time_steps_yearly)
        \* isin() is applied to the values of the series, which are all 1
        mask_other_time_steps(h, y) ==
            InList(1, s.set_time_steps_yearly_entire_horizon) /\ ~mask_current_time_steps(h, y)
        \* entries outside the coordinates of capacity_investment_existing are NaN
        \* after broadcasting and drop out of the sum
        existing(h, k, loc, y) ==
            IF mask_other_time_steps(h, y)
                /\ InList(investment_time(h, y), s.set_time_steps_yearly_entire_horizon)
            THEN Num(p.capacity_investment_existing[h][k][loc][investment_time(h, y)])
            ELSE Zero
    IN {Row(x[1], x[2], "-", x[3], x[4],
            {Term("capacity_addition", x[1], x[2], "-", x[3], x[4], One)}
                \cup (IF mask_current_time_steps(x[1], x[4])
                      THEN {Term("capacity_investment", x[1], x[2], "-", x[3],
                                 investment_time(x[1], x[4]), XNeg(One))}
                      ELSE {}),
            "==", existing(x[1], x[2], x[3], x[4])) :
        x \in TechnologyIndex(s)}

\* lt_range: the lifetime ranges are laid out as the rows of a DataFrame and
\* stacked, so the level that is named set_time_steps_yearly_prev holds the column
\* label of each entry, i.e. its position 0, 1, ... in the range; the years
\* themselves are the values, which are overwritten by -1
lt_range(s, sys, p, h, y) ==
    0..(Cardinality(get_lifetime_range(s, sys, p, h, y)) - 1)

\* (lt_range * capacity_addition).sum("set_time_steps_yearly_prev"): the additions
\* entering both lifetime constraints with -1; a coordinate that is no yearly step
\* has no variable and contributes no term
LifetimeExpr(s, sys, p, h, k, loc, y) ==
    {Term("capacity_addition", h, k, "-", loc, py, XNeg(One)) :
        py \in {q \in lt_range(s, sys, p, h, y) : VarExists(s, h, k, loc, q)}}

constraint_technology_lifetime(s, sys, p) ==
    {Row(x[1], x[2], "-", x[3], x[4],
         {Term("capacity", x[1], x[2], "-", x[3], x[4], One)}
            \cup LifetimeExpr(s, sys, p, x[1], x[2], x[3], x[4]),
         "==", get_available_existing_quantity(s, sys, p, x[1], x[2], x[3], x[4])) :
     x \in TechnologyIndex(s)}

constraint_technology_lifetime_previous(s, sys, p) ==
    {Row(x[1], x[2], "-", x[3], x[4],
         {Term("capacity_previous", x[1], x[2], "-", x[3], x[4], One),
          Term("capacity_addition", x[1], x[2], "-", x[3], x[4], One)}
            \cup LifetimeExpr(s, sys, p, x[1], x[2], x[3], x[4]),
         "==", get_available_existing_quantity(s, sys, p, x[1], x[2], x[3], x[4])) :
     x \in TechnologyIndex(s)}

(***************************************************************************)
(* TechnologyRules.constraint_technology_diffusion_limit                   *)
(***************************************************************************)
\* spillover rate of the knowledge additions: masked to 0 for transport
\* technologies and for edges
sr(p, h, loc) ==
    IF h \in set_transport_technologies \/ loc \in set_edges
    THEN Zero ELSE p.knowledge_spillover_rate

\* knowledge depreciation of the capacity added in a previous year py < y
kdr(sys, y, py) ==
    XPow(XSub(One, sys.knowledge_depreciation_rate), sys.interval_between_years * (y - 1 - py))

\* technology diffusion rate per investment period
tdr(sys, p, h, y) ==
    XSub(XPow(XAdd(One, p.max_diffusion_rate[h][y]), sys.interval_between_years), One)

\* share of the previous capacity of the other technology ot that is added to the
\* bound of technology t: all pairs of set_technologies with equal reference carrier
market_share_unbounded(s, p, t, ot) ==
    IF s.set_reference_carriers[t][1] = s.set_reference_carriers[ot][1]
    THEN p.market_share_unbounded ELSE Zero

\* coefficient of capacity_addition[h, k, l2, py] in term_knowledge of (h, k, loc, y):
\* capacity_addition_years + sr * (capacity_addition_location - capacity_addition_years),
\* where capacity_addition_location sums over the nodes
TermKnowledgeCoef(sys, p, h, loc, l2, y, py, with_spillover) ==
    LET own == IF l2 = loc THEN One ELSE Zero
        rate == IF with_spillover THEN sr(p, h, loc) ELSE Zero
        spill == XMul(rate, XSub(IF l2 \in set_nodes THEN One ELSE Zero, own))
    IN XMul(tdr(sys, p, h, y), XMul(XAdd(own, spill), kdr(sys, y, py)))

TermKnowledge(s, sys, p, h, k, loc, y, with_spillover) ==
    LET prev == {py \in Range(s.set_time_steps_yearly) : py < y}
        cands == {x \in ({loc} \cup set_nodes) \X prev : VarExists(s, h, k, x[1], x[2])}
    IN {Term("capacity_addition", h, k, "-", x[1], x[2],
             XNeg(TermKnowledgeCoef(sys, p, h, loc, x[1], y, x[2], with_spillover))) :
        x \in {z \in cands :
                TermKnowledgeCoef(sys, p, h, loc, z[1], y, z[2], with_spillover) # Zero}}

TermUnboundedAddition(s, p, h, k, loc, y) ==
    {Term("capacity_previous", ot, k, "-", loc, y, XNeg(market_share_unbounded(s, p, h, ot))) :
        ot \in {o \in set_technologies :
                    VarExists(s, o, k, loc, y) /\ market_share_unbounded(s, p, h, o) # Zero}}

\* knowledge depreciation of an existing capacity
kdr_existing(s, sys, p, h, loc, i, y) ==
    LET delta_years == sys.interval_between_years * (y - 1 - s.set_time_steps_yearly[1])
    IN XPow(XSub(One, sys.knowledge_depreciation_rate),
            delta_years + p.lifetime[h] - p.lifetime_existing[h][loc][i])

\* existing capacity plus the spillover of the existing capacity of the other locations
capacity_existing_total(p, h, k, loc, i) ==
    LET locs == LocationsOf(h)
        all == XSumSkipNa(locs, [l \in locs |-> Num(p.capacity_existing[h][k][l][i])])
        own == Num(p.capacity_existing[h][k][loc][i])
    IN XAdd(own, XMul(p.knowledge_spillover_rate, XSub(all, own)))

capacity_existing_total_nosr(p, h, k, loc, i) == Num(p.capacity_existing[h][k][loc][i])

\* the knowledge stock of the existing capacities of (h, k, loc) in year y
KnowledgeExisting(s, sys, p, h, k, loc, y, with_spillover) ==
    LET ids == s.set_technologies_existing[h]
    IN XSumSkipNa(ids, [i \in ids |->
            XMul(IF with_spillover THEN capacity_existing_total(p, h, k, loc, i)
                 ELSE capacity_existing_total_nosr(p, h, k, loc, i),
                 kdr_existing(s, sys, p, h, loc, i, y))])

rhs_an(s, sys, p, h, k, loc, y) ==
    XAdd(XMul(tdr(sys, p, h, y), KnowledgeExisting(s, sys, p, h, k, loc, y, TRUE)),
         p.capacity_addition_unbounded[h])

rhs_sn(s, sys, p, h, k, y) ==
    LET locs == LocationsOf(h)
    IN XSumSkipNa(locs, [l \in locs |->
            XAdd(XMul(tdr(sys, p, h, y), KnowledgeExisting(s, sys, p, h, k, l, y, FALSE)),
                 p.capacity_addition_unbounded[h])])

\* per-location diffusion limit (constraints_an)
constraint_technology_diffusion_limit(s, sys, p) ==
    {Row(x[1], x[2], "-", x[3], x[4],
         {Term("capacity_addition", x[1], x[2], "-", x[3], x[4], One)}
            \cup TermKnowledge(s, sys, p, x[1], x[2], x[3], x[4], TRUE)
            \cup TermUnboundedAddition(s, p, x[1], x[2], x[3], x[4]),
         "<=", rhs_an(s, sys, p, x[1], x[2], x[3], x[4])) :
     x \in TechnologyIndex(s)}

\* diffusion limit of the total fleet (constraints_sn): summed over the locations
constraint_technology_diffusion_limit_total(s, sys, p) ==
    {Row(x[1], x[2], "-", "-", x[3],
         UNION {{Term("capacity_addition", x[1], x[2], "-", l, x[3], One)}
                    \cup TermKnowledge(s, sys, p, x[1], x[2], l, x[3], FALSE)
                    \cup TermUnboundedAddition(s, p, x[1], x[2], l, x[3]) :
                l \in LocationsOf(x[1])},
         "<=", rhs_sn(s, sys, p, x[1], x[2], x[3])) :
     x \in {<<z[1], z[2], z[4]>> : z \in TechnologyIndex(s)}}

(***************************************************************************)
(* Constraint builder                                                      *)
(***************************************************************************)
NoConstraints == [name \in {} |-> {}]

\* model.variables before construct_vars
NoVariables == [name \in {} |-> {}]

\* Constraint.add_constraint_block: a name that is already registered is not added again
add_constraint_block(cons, d, name, rows) ==
    IF name \notin d
    THEN [n \in DOMAIN cons \cup {name} |-> IF n = name THEN rows ELSE cons[n]]
    ELSE cons

\* Constraint.add_constraint, used by the technology rules: as add_constraint_block,
\* and a row whose right-hand side is +inf is omitted entirely
add_constraint(cons, d, name, rows) ==
    add_constraint_block(cons, d, name, {r \in rows : r.rhs # Inf})

Built(name) == name \in DOMAIN constraints

\* Variable.add_variable: the variable exists at the tuples of its index set at which
\* the mask is true; a name that is already present is not added again
add_variable(vs, name, index_values, mask, binary) ==
    IF name \notin DOMAIN vs
    THEN [n \in DOMAIN vs \cup {name} |->
            IF n = name THEN [mask |-> index_values \cap mask, binary |-> binary] ELSE vs[n]]
    ELSE vs

\* model.variables.remove and model.constraints.remove
remove(comps, name) == [n \in DOMAIN comps \ {name} |-> comps[n]]

\* the variables of the model that are binary
BinaryVariables == {n \in DOMAIN variables : variables[n].binary}

(***************************************************************************)
(* Technology.construct_vars                                               *)
(***************************************************************************)
\* the custom set [set_technologies, set_location, time steps]
TechnologyLocationIndex(time_steps) ==
    {x \in set_technologies \X set_location \X time_steps : x[2] \in LocationsOf(x[1])}

\* a set of time steps as an index set
TimeIndex(time_steps) == {<<t>> : t \in time_steps}

\* the coordinate grid (technology, capacity type, location, year) of the mask
MaskCoords(s) ==
    set_technologies \X set_capacity_types \X set_location \X Range(s.set_time_steps_yearly)

\* variant: the minimum capacity addition does not ask for the binary variable
technology_installation_mask_without_min(s, p) ==
    LET transport == {x \in MaskCoords(s) :
                        /\ x[1] \in set_transport_technologies
                        /\ x[3] \in set_edges
                        /\ XMul(p.distance[x[1]][x[3]],
                                p.capex_per_distance_transport[x[1]][x[3]]) # Zero}
        max_addition == {x \in TechnologyIndex(s) :
                        /\ ~IsNaN(p.capacity_addition_max[x[1]][x[2]])
                        /\ p.capacity_addition_max[x[1]][x[2]] # Inf
                        /\ p.capacity_addition_max[x[1]][x[2]] # Zero}
    IN transport \cup max_addition

\* Technology._technology_installation_mask: the tuples at which the binary variable is
\* used, (1) by the capex of a transport technology, (2) by the minimum and (3) by the
\* maximum capacity addition
technology_installation_mask(s, p) ==
    LET transport == {x \in MaskCoords(s) :
                        /\ x[1] \in set_transport_technologies
                        /\ x[3] \in set_edges
                        /\ XMul(p.distance[x[1]][x[3]],
                                p.capex_per_distance_transport[x[1]][x[3]]) # Zero}
        min_addition == {x \in MaskCoords(s) :
                        /\ ~IsNaN(p.capacity_addition_min[x[1]][x[2]])
                        /\ p.capacity_addition_min[x[1]][x[2]] # Zero}
        max_addition == {x \in TechnologyIndex(s) :
                        /\ ~IsNaN(p.capacity_addition_max[x[1]][x[2]])
                        /\ p.capacity_addition_max[x[1]][x[2]] # Inf
                        /\ p.capacity_addition_max[x[1]][x[2]] # Zero}
    IN transport \cup min_addition \cup max_addition

\* the continuous variables of Technology.construct_vars, each with its index set
TechnologyContinuousVariables(s) ==
    [n \in {"capacity", "capacity_previous", "capacity_addition", "capacity_investment",
            "cost_capex", "capex_yearly", "cost_capex_total", "cost_opex", "cost_opex_total",
            "opex_yearly", "carbon_emissions_technology", "carbon_emissions_technology_total"} |->
        CASE n \in {"cost_capex_total", "cost_opex_total", "carbon_emissions_technology_total"} ->
                TimeIndex(Range(s.set_time_steps_yearly))
          [] n \in {"cost_opex", "carbon_emissions_technology"} ->
                TechnologyLocationIndex(s.set_time_steps_operation)
          [] n = "opex_yearly" -> TechnologyLocationIndex(Range(s.set_time_steps_yearly))
          [] OTHER -> TechnologyIndex(s)]

\* capacity_bounds of Technology.construct_vars: the upper bound of capacity and of
\* capacity_previous, finite only for the technologies with on/off behaviour (big-M)
capacity_bounds(s, p, tech, capacity_type, loc, time) ==
    IF tech \in s.set_on_off
    THEN LET ids == {i \in s.set_technologies_existing[tech] :
                        IF p.lifetime_existing[tech][loc][i] > p.lifetime[tech]
                        THEN time > p.lifetime_existing[tech][loc][i] - p.lifetime[tech]
                        ELSE time <= p.lifetime_existing[tech][loc][i] + 1}
             capacities_existing ==
                XSum(ids, [i \in ids |-> Num(p.capacity_existing[tech][capacity_type][loc][i])])
             capacity_addition_max ==
                XMul(Num(Len(s.set_time_steps_yearly)), p.capacity_addition_max[tech][capacity_type])
             max_capacity_limit == p.capacity_limit[tech][capacity_type][loc][time]
             by_addition == XAdd(capacity_addition_max, capacities_existing)
             by_limit == XAdd(max_capacity_limit, capacities_existing)
         IN IF XLeq(by_addition, by_limit) THEN by_addition ELSE by_limit
    ELSE Inf

\* Technology.construct_vars: the continuous variables, capacity and capacity_previous
\* with the upper bound of capacity_bounds, and the binary variable
\* technology_installation if its mask is true anywhere
construct_vars(vs, s, p) ==
    LET cont == TechnologyContinuousVariables(s)
        bounded(n) ==
            LET v == add_variable(vs, n, cont[n], cont[n], FALSE)[n]
            IN IF n \in {"capacity", "capacity_previous"}
               THEN [mask |-> v.mask, binary |-> v.binary,
                     upper |-> [x \in v.mask |-> capacity_bounds(s, p, x[1], x[2], x[3], x[4])]]
               ELSE v
        with_cont == [n \in DOMAIN vs \cup DOMAIN cont |->
                        IF n \in DOMAIN vs THEN vs[n] ELSE bounded(n)]
        mask == technology_installation_mask(s, p)
    IN IF mask # {}
       THEN add_variable(with_cont, "technology_installation", TechnologyIndex(s), mask, TRUE)
       ELSE with_cont

(***************************************************************************)
(* Technology.construct_constraints: the on/off behaviour                  *)
(***************************************************************************)
\* the custom set [set_technologies, set_on_off, set_capacity_types, set_location,
\* set_time_steps_operation]
OnOffIndex(s) ==
    {x \in set_technologies \X set_capacity_types \X set_location \X s.set_time_steps_operation :
        x[1] \in s.set_on_off /\ x[2] \in CapacityTypesOf(x[1]) /\ x[3] \in LocationsOf(x[1])}

\* the yearly step of an operational step
convert_time_step_operation2year(time) == time \div StepsPerYear

\* the constraint of the subclass for a technology that is on: with the binary at 1 the
\* reference flow is at least min_load * capacity (big-M with the capacity limit)
disjunct_on_technology(s, p, tech, capacity_type, loc, time) ==
    LET y == convert_time_step_operation2year(time)
        M == p.capacity_limit[tech][capacity_type][loc][y]
    IN {Row(tech, capacity_type, s.set_reference_carriers[tech][1], loc, time,
            {Term("reference_flow", tech, "-", s.set_reference_carriers[tech][1], loc, time, One),
             Term("capacity", tech, capacity_type, "-", loc, y, XNeg(p.min_load[tech])),
             Term("tech_on_var", tech, capacity_type, "-", loc, time, XNeg(M))},
            ">=", XNeg(M))}

\* the constraint of the subclass for a technology that is off: with the binary at 1 the
\* reference flow is zero
disjunct_off_technology(s, p, tech, capacity_type, loc, time) ==
    LET y == convert_time_step_operation2year(time)
        M == p.capacity_limit[tech][capacity_type][loc][y]
    IN {Row(tech, capacity_type, s.set_reference_carriers[tech][1], loc, time,
            {Term("reference_flow", tech, "-", s.set_reference_carriers[tech][1], loc, time, One),
             Term("tech_off_var", tech, capacity_type, "-", loc, time, M)},
            "<=", M)}

\* tech_on_var + tech_off_var == 1 on the index of the two variables
tech_on_off_cons(vs) ==
    {Row(x[1], x[2], "-", x[3], x[4],
         {Term("tech_on_var", x[1], x[2], "-", x[3], x[4], One),
          Term("tech_off_var", x[1], x[2], "-", x[3], x[4], One)},
         "=", One) : x \in vs["tech_on_var"].mask \cap vs["tech_off_var"].mask}

\* model.constraints.ncons: the number of rows of all constraints
RECURSIVE ncons_of(_, _)
ncons_of(cons, names) ==
    IF names = {} THEN 0
    ELSE LET n == CHOOSE n \in names : TRUE
         IN Cardinality(cons[n]) + ncons_of(cons, names \ {n})

ncons(cons) == ncons_of(cons, DOMAIN cons)

\* a rule evaluated at every tuple of its index: the rows the calls add to the model
add_disjuncts(cons, name, index_values, rule(_, _, _, _)) ==
    LET rows == UNION {rule(x[1], x[2], x[3], x[4]) : x \in index_values}
    IN IF rows = {} THEN cons
       ELSE [n \in DOMAIN cons \cup {name} |->
                IF n = name THEN rows
                ELSE cons[n]]

\* variant: the on/off variables and their constraint are kept in every case
construct_constraints_on_off_kept(vs, cons, s, p) ==
    LET with_vars == add_variable(add_variable(vs, "tech_on_var", OnOffIndex(s), OnOffIndex(s), TRUE),
                                  "tech_off_var", OnOffIndex(s), OnOffIndex(s), TRUE)
        with_cons == [n \in DOMAIN cons \cup {"tech_on_off_cons"} |->
                        IF n = "tech_on_off_cons" THEN tech_on_off_cons(with_vars) ELSE cons[n]]
        on(h, k, l, t) == disjunct_on_technology(s, p, h, k, l, t)
        off(h, k, l, t) == disjunct_off_technology(s, p, h, k, l, t)
        with_rules == add_disjuncts(add_disjuncts(with_cons, "disjunct_on_technology",
                                                  OnOffIndex(s), on),
                                    "disjunct_off_technology", OnOffIndex(s), off)
    IN [variables |-> with_vars, constraints |-> with_rules]

\* Technology.construct_constraints, the on/off part: the two binaries and their
\* constraint are added, then the disjuncts; if the disjuncts added no constraint the
\* three are removed again
construct_constraints_on_off(vs, cons, s, p) ==
    LET with_vars == add_variable(add_variable(vs, "tech_on_var", OnOffIndex(s), OnOffIndex(s), TRUE),
                                  "tech_off_var", OnOffIndex(s), OnOffIndex(s), TRUE)
        with_cons == [n \in DOMAIN cons \cup {"tech_on_off_cons"} |->
                        IF n = "tech_on_off_cons" THEN tech_on_off_cons(with_vars) ELSE cons[n]]
        n_cons == ncons(with_cons)
        on(h, k, l, t) == disjunct_on_technology(s, p, h, k, l, t)
        off(h, k, l, t) == disjunct_off_technology(s, p, h, k, l, t)
        with_rules == add_disjuncts(add_disjuncts(with_cons, "disjunct_on_technology",
                                                  OnOffIndex(s), on),
                                    "disjunct_off_technology", OnOffIndex(s), off)
    IN IF ncons(with_rules) = n_cons
       THEN [variables |-> remove(remove(with_vars, "tech_on_var"), "tech_off_var"),
             constraints |-> remove(with_rules, "tech_on_off_cons")]
       ELSE [variables |-> with_vars, constraints |-> with_rules]

(***************************************************************************)
(* Input data                                                              *)
(***************************************************************************)
ExistingIds == {0, 1}

\* the yearly steps from .. to - 1 as a list
YearList(from, to) == [i \in 1..(to - from) |-> from + i - 1]

DefaultSets ==
    [set_input_carriers |-> [h \in set_conversion_technologies |-> {"c1"}],
     set_output_carriers |-> [h \in set_conversion_technologies |-> {"c2"}],
     set_reference_carriers |-> [h \in set_technologies |-> <<"c1">>],
     set_technologies_existing |-> [h \in set_technologies |-> {0}],
     set_time_steps_yearly |-> YearList(0, NumYears),
     set_time_steps_yearly_entire_horizon |-> YearList(0, NumYears),
     set_time_steps_operation |-> 0..(StepsPerYear * NumYears - 1),
     set_on_off |-> {}]

DefaultSystem ==
    [interval_between_years |-> 1,
     knowledge_depreciation_rate |-> Zero]

NoCapacity == [h \in set_technologies |-> [k \in set_capacity_types |->
                    [l \in set_location |-> [i \in ExistingIds |-> 0]]]]

\* minimum capacity additions: m1 for conv1 and the power of stor, m2 for the others;
\* the parameter has no value where the technology has no such capacity type
CapacityAdditionMin(m1, m2) ==
    [h \in set_technologies |-> [k \in set_capacity_types |->
        IF k \notin CapacityTypesOf(h) THEN NaN
        ELSE IF h = "conv1" \/ (h = "stor" /\ k = "power") THEN m1 ELSE m2]]

\* a parameter over (carrier, node, operational step): base + step, and 0 for c2 at n3
OperationProfile(base) ==
    [c \in set_carriers |-> [n \in set_nodes |-> [t \in 0..(StepsPerYear * NumYears - 1) |->
        IF c = "c2" /\ n = "n3" THEN Zero ELSE Num(base + t)]]]

\* a yearly availability: base + year, and +inf at the tuples of unlimited
YearlyAvailability(base, unlimited) ==
    [c \in set_carriers |-> [n \in set_nodes |-> [y \in 0..(NumYears - 1) |->
        IF <<c, n, y>> \in unlimited THEN Inf ELSE Num(base + y)]]]

DefaultParameters ==
    [demand_carrier |-> [c \in set_carriers |-> [n \in set_nodes |-> Zero]],
     lifetime |-> [h \in set_technologies |-> 2],
     construction_time |-> [h \in set_technologies |-> 0],
     capacity_existing |-> NoCapacity,
     lifetime_existing |-> [h \in set_technologies |-> [l \in set_location |->
                                [i \in ExistingIds |-> 0]]],
     capacity_investment_existing |-> [h \in set_technologies |-> [k \in set_capacity_types |->
                                [l \in set_location |-> [y \in 0..(NumYears - 1) |-> 0]]]],
     capacity_addition_max |-> [h \in set_technologies |-> [k \in set_capacity_types |-> Inf]],
     capacity_addition_min |-> CapacityAdditionMin(Zero, Zero),
     capacity_limit |-> [h \in set_technologies |-> [k \in set_capacity_types |->
                            [l \in set_location |-> [y \in 0..(NumYears - 1) |-> Num(100)]]]],
     min_load |-> [h \in set_technologies |-> Frac(1, 2)],
     availability_carrier_import |-> OperationProfile(5),
     availability_carrier_export |-> OperationProfile(7),
     availability_carrier_import_yearly |-> YearlyAvailability(100, {}),
     availability_carrier_export_yearly |-> YearlyAvailability(200, {}),
     import_price_carrier |-> OperationProfile(2),
     export_price_carrier |-> OperationProfile(1),
     shed_demand_price |-> [c \in set_carriers |-> Num(50)],
     carbon_intensity_carrier |-> [c \in set_carriers |-> [n \in set_nodes |->
                                    [y \in 0..(NumYears - 1) |-> Num(3 + y)]]],
     time_steps_operation_duration |-> [c \in set_carriers |->
            [t \in 0..(StepsPerYear * NumYears - 1) |-> Num(1 + (t % StepsPerYear))]],
     distance |-> [h \in set_transport_technologies |-> [e \in set_edges |-> Num(10)]],
     capex_per_distance_transport |-> [h \in set_transport_technologies |->
                                            [e \in set_edges |-> Zero]],
     capex_specific_transport |-> [h \in set_transport_technologies |->
                                            [e \in set_edges |-> Num(2)]],
     capacity_addition_unbounded |-> [h \in set_technologies |-> Zero],
     max_diffusion_rate |-> [h \in set_technologies |-> [y \in 0..(NumYears - 1) |-> Inf]],
     knowledge_spillover_rate |-> Zero,
     market_share_unbounded |-> Zero]

\* demand with a different value for every (carrier, node)
DemandProfile(base) ==
    [c \in set_carriers |-> [n \in set_nodes |->
        Num(base + (IF c = "c1" THEN 0 ELSE 10)
                 + (CASE n = "n1" -> 1 [] n = "n2" -> 2 [] n = "n3" -> 3))]]

(***************************************************************************)
(* CarrierRules: availability, cost, shed demand and emissions             *)
(***************************************************************************)
\* the custom set [set_carriers, set_nodes, time steps]
CarrierNodeTimeIndex(time_steps) == set_carriers \X set_nodes \X time_steps

\* the operational steps of a yearly step
get_time_steps_year2operation(s, year) ==
    {t \in s.set_time_steps_operation : convert_time_step_operation2year(t) = year}

get_constraint_availability_carrier_import(s, p) ==
    {Row("-", "-", x[1], x[2], x[3],
         {Term("import_carrier_flow", "-", "-", x[1], x[2], x[3], One)},
         "<=", p.availability_carrier_import[x[1]][x[2]][x[3]]) :
        x \in CarrierNodeTimeIndex(s.set_time_steps_operation)}

get_constraint_availability_carrier_export(s, p) ==
    {Row("-", "-", x[1], x[2], x[3],
         {Term("export_carrier_flow", "-", "-", x[1], x[2], x[3], One)},
         "<=", p.availability_carrier_export[x[1]][x[2]][x[3]]) :
        x \in CarrierNodeTimeIndex(s.set_time_steps_operation)}

\* the rule returns a constraint, or None (the empty set) for an availability of +inf
constraint_availability_carrier_import_yearly_rule(s, p, carrier, node, year) ==
    IF p.availability_carrier_import_yearly[carrier][node][year] # Inf
    THEN {Row("-", "-", carrier, node, year,
              {Term("import_carrier_flow", "-", "-", carrier, node, t,
                    p.time_steps_operation_duration[carrier][t]) :
                 t \in get_time_steps_year2operation(s, year)},
              "<=", p.availability_carrier_import_yearly[carrier][node][year])}
    ELSE {}

constraint_availability_carrier_export_yearly_rule(s, p, carrier, node, year) ==
    IF p.availability_carrier_export_yearly[carrier][node][year] # Inf
    THEN {Row("-", "-", carrier, node, year,
              {Term("export_carrier_flow", "-", "-", carrier, node, t,
                    p.time_steps_operation_duration[carrier][t]) :
                 t \in get_time_steps_year2operation(s, year)},
              "<=", p.availability_carrier_export_yearly[carrier][node][year])}
    ELSE {}

\* cost_carrier - import_price * import + export_price * export == 0; the flows are
\* masked where neither import nor export is available
get_constraint_cost_carrier(s, p) ==
    {LET mask == \/ p.availability_carrier_import[x[1]][x[2]][x[3]] # Zero
                 \/ p.availability_carrier_export[x[1]][x[2]][x[3]] # Zero
     IN Row("-", "-", x[1], x[2], x[3],
            {Term("cost_carrier", "-", "-", x[1], x[2], x[3], One)}
            \cup (IF mask
                  THEN {Term("import_carrier_flow", "-", "-", x[1], x[2], x[3],
                             XNeg(p.import_price_carrier[x[1]][x[2]][x[3]])),
                        Term("export_carrier_flow", "-", "-", x[1], x[2], x[3],
                             p.export_price_carrier[x[1]][x[2]][x[3]])}
                  ELSE {}),
            "==", Zero) :
        x \in CarrierNodeTimeIndex(s.set_time_steps_operation)}

\* variant: the shed demand is priced for every carrier
get_constraint_cost_shed_demand_always_priced(s, p) ==
    {Row("-", "-", x[1], x[2], x[3],
         {Term("cost_shed_demand_carrier", "-", "-", x[1], x[2], x[3], One),
          Term("shed_demand_carrier", "-", "-", x[1], x[2], x[3],
               XNeg(p.shed_demand_price[x[1]]))},
         "==", Zero) :
        x \in CarrierNodeTimeIndex(s.set_time_steps_operation)}

\* per carrier: cost_shed_demand - shed_demand * price == 0 for a price that is not
\* +inf, shed_demand == 0 otherwise
get_constraint_cost_shed_demand(s, p) ==
    {IF p.shed_demand_price[x[1]] # Inf
     THEN Row("-", "-", x[1], x[2], x[3],
              {Term("cost_shed_demand_carrier", "-", "-", x[1], x[2], x[3], One),
               Term("shed_demand_carrier", "-", "-", x[1], x[2], x[3],
                    XNeg(p.shed_demand_price[x[1]]))},
              "==", Zero)
     ELSE Row("-", "-", x[1], x[2], x[3],
              {Term("shed_demand_carrier", "-", "-", x[1], x[2], x[3], One)},
              "==", Zero) :
        x \in CarrierNodeTimeIndex(s.set_time_steps_operation)}

get_constraint_limit_shed_demand(s, p) ==
    {Row("-", "-", x[1], x[2], x[3],
         {Term("shed_demand_carrier", "-", "-", x[1], x[2], x[3], One)},
         "<=", p.demand_carrier[x[1]][x[2]]) :
        x \in CarrierNodeTimeIndex(s.set_time_steps_operation)}

\* cost_carrier_total[year] - sum over carriers, nodes and the steps of the year of
\* (cost_carrier + cost_shed_demand_carrier) * duration == 0
constraint_cost_carrier_total_rule(s, p, year) ==
    {Row("-", "-", "-", "-", year,
         {Term("cost_carrier_total", "-", "-", "-", "-", year, One)}
         \cup {Term("cost_carrier", "-", "-", x[1], x[2], x[3],
                    XNeg(p.time_steps_operation_duration[x[1]][x[3]])) :
                x \in CarrierNodeTimeIndex(get_time_steps_year2operation(s, year))}
         \cup {Term("cost_shed_demand_carrier", "-", "-", x[1], x[2], x[3],
                    XNeg(p.time_steps_operation_duration[x[1]][x[3]])) :
                x \in CarrierNodeTimeIndex(get_time_steps_year2operation(s, year))},
         "==", Zero)}

\* carbon_emissions_carrier - fac * (import - export) == 0, fac the carbon intensity of the
\* year where import or export is available and 0 elsewhere
get_constraint_carbon_emissions_carrier(s, p) ==
    {LET mask == \/ p.availability_carrier_import[x[1]][x[2]][x[3]] # Zero
                 \/ p.availability_carrier_export[x[1]][x[2]][x[3]] # Zero
         fac == IF mask
                THEN p.carbon_intensity_carrier[x[1]][x[2]][convert_time_step_operation2year(x[3])]
                ELSE Zero
     IN Row("-", "-", x[1], x[2], x[3],
            {Term("carbon_emissions_carrier", "-", "-", x[1], x[2], x[3], One),
             Term("import_carrier_flow", "-", "-", x[1], x[2], x[3], XNeg(fac)),
             Term("export_carrier_flow", "-", "-", x[1], x[2], x[3], fac)},
            "==", Zero) :
        x \in CarrierNodeTimeIndex(s.set_time_steps_operation)}

constraint_carbon_emissions_carrier_total_rule(s, p, year) ==
    {Row("-", "-", "-", "-", year,
         {Term("carbon_emissions_carrier_total", "-", "-", "-", "-", year, One)}
         \cup {Term("carbon_emissions_carrier", "-", "-", x[1], x[2], x[3],
                    XNeg(p.time_steps_operation_duration[x[1]][x[3]])) :
                x \in CarrierNodeTimeIndex(get_time_steps_year2operation(s, year))},
         "==", Zero)}

(***************************************************************************)
(* Constraint.add_constraint_rule and Carrier.construct_constraints        *)
(***************************************************************************)
\* the state of the builder while a handler runs: constraints, docs and the exception
\* raised so far ("none" while the handler is running normally)
Building(cons, d) == [constraints |-> cons, docs |-> d, raised |-> "none"]

\* Constraint.add_constraint_block on the state of the builder
block(b, name, rows) ==
    IF b.raised # "none" THEN b
    ELSE [b EXCEPT !.constraints = add_constraint_block(b.constraints, b.docs, name, rows),
                   !.docs = b.docs \cup {name}]

\* Constraint.add_constraint_rule: the rule is evaluated at every tuple, then the lhs of
\* every result is read; a result of None has no lhs (AttributeError), and an empty
\* list of tuples has no first element (IndexError in tuple_to_arr)
add_constraint_rule(b, name, index_values, rule(_)) ==
    IF b.raised # "none" \/ name \in b.docs THEN b
    ELSE IF index_values = {} THEN [b EXCEPT !.raised = "IndexError"]
    ELSE IF \E x \in index_values : rule(x) = {} THEN [b EXCEPT !.raised = "AttributeError"]
    ELSE block(b, name, UNION {rule(x) : x \in index_values})

\* Carrier.construct_constraints: the constraints of the class in the order of the code
construct_constraints(cons, d, s, p) ==
    LET years == Range(s.set_time_steps_yearly)
        import_yearly(x) == constraint_availability_carrier_import_yearly_rule(s, p, x[1], x[2], x[3])
        export_yearly(x) == constraint_availability_carrier_export_yearly_rule(s, p, x[1], x[2], x[3])
        cost_total(x) == constraint_cost_carrier_total_rule(s, p, x[1])
        emissions_total(x) == constraint_carbon_emissions_carrier_total_rule(s, p, x[1])
        b1 == block(Building(cons, d), "constraint_availability_carrier_import",
                    get_constraint_availability_carrier_import(s, p))
        b2 == block(b1, "constraint_availability_carrier_export",
                    get_constraint_availability_carrier_export(s, p))
        b3 == add_constraint_rule(b2, "constraint_availability_carrier_import_yearly",
                                  CarrierNodeTimeIndex(years), import_yearly)
        b4 == add_constraint_rule(b3, "constraint_availability_carrier_export_yearly",
                                  CarrierNodeTimeIndex(years), export_yearly)
        b5 == block(b4, "constraint_cost_carrier", get_constraint_cost_carrier(s, p))
        b6 == block(b5, "constraint_cost_shed_demand", get_constraint_cost_shed_demand(s, p))
        b7 == block(b6, "constraint_limit_shed_demand", get_constraint_limit_shed_demand(s, p))
        b8 == add_constraint_rule(b7, "constraint_cost_carrier_total", TimeIndex(years), cost_total)
        b9 == block(b8, "constraint_carbon_emissions_carrier",
                    get_constraint_carbon_emissions_carrier(s, p))
        b10 == add_constraint_rule(b9, "constraint_carbon_emissions_carrier_total",
                                   TimeIndex(years), emissions_total)
    IN block(b10, "constraint_nodal_energy_balance", get_constraint_nodal_energy_balance(s, p))

(***************************************************************************)
(* Assembly of the carrier constraints                                     *)
(***************************************************************************)
\* the tuples without a limit on the yearly import or export
UnlimitedTuples ==
    {{}, {<<"c1", "n1", 0>>}, {<<"c2", "n2", NumYears - 1>>},
     set_carriers \X set_nodes \X (0..(NumYears - 1))}

\* yearly availabilities with and without +inf, prices of shed demand with and without +inf
CarrierScenarios ==
    {[DefaultParameters EXCEPT
            !.demand_carrier = DemandProfile(0),
            !.availability_carrier_import_yearly = YearlyAvailability(100, ui),
            !.availability_carrier_export_yearly = YearlyAvailability(200, ue),
            !.shed_demand_price = [c \in set_carriers |-> IF c \in cs THEN Inf ELSE Num(50)]] :
        ui \in UnlimitedTuples, ue \in UnlimitedTuples, cs \in SUBSET set_carriers}

InitCarrier ==
    /\ \/ /\ \E ic \in [set_conversion_technologies -> SUBSET set_carriers],
                oc \in [set_conversion_technologies -> SUBSET set_carriers],
                rp \in set_carriers, rs \in set_carriers :
                    sets = [DefaultSets EXCEPT
                                !.set_input_carriers = ic,
                                !.set_output_carriers = oc,
                                !.set_reference_carriers = [h \in set_technologies |->
                                    IF h \in set_transport_technologies THEN <<rp>>
                                    ELSE IF h \in set_storage_technologies THEN <<rs>>
                                    ELSE <<"c1">>]]
          /\ \E base \in {0, 20} :
                parameters = [DefaultParameters EXCEPT !.demand_carrier = DemandProfile(base)]
       \/ /\ sets = DefaultSets
          /\ parameters \in CarrierScenarios
    /\ system = DefaultSystem
    /\ variables = NoVariables
    /\ constraints = NoConstraints
    /\ docs = {}
    /\ objective = {}
    /\ listOfElements = <<>>
    /\ dictReversedEdges = <<>>
    /\ indexSets = <<>>
    /\ componentDocs = <<>>
    /\ calls = <<>>
    /\ dict_elements = <<>>
    /\ tsa = <<>>
    /\ energy_system = <<>>
    /\ pc = "Carrier.construct_constraints"

\* Carrier.construct_constraints; an exception ends the assembly
CarrierConstructConstraints ==
    /\ pc = "Carrier.construct_constraints"
    /\ LET built == construct_constraints(constraints, docs, sets, parameters)
       IN /\ constraints' = built.constraints
          /\ docs' = built.docs
          /\ pc' = IF built.raised = "none" THEN "done" ELSE built.raised
    /\ UNCHANGED <<indexSets, componentDocs, calls, dict_elements, tsa, energy_system, sets, system, parameters, variables, listOfElements, dictReversedEdges, objective>>

NextCarrier == CarrierConstructConstraints

SpecCarrier == InitCarrier /\ [][NextCarrier]_vars

(***************************************************************************)
(* Assembly of the technology constraints                                  *)
(***************************************************************************)
\* existing capacities: two generations of conv1, one of the other technologies
ExistingCapacity ==
    [h \in set_technologies |-> [k \in set_capacity_types |-> [l \in set_location |->
        [i \in ExistingIds |->
            CASE h = "conv1" /\ k = "power" /\ l = "n1" /\ i = 0 -> 100
              [] h = "conv1" /\ k = "power" /\ l = "n1" /\ i = 1 -> 7
              [] h = "conv1" /\ k = "power" /\ l = "n2" /\ i = 1 -> 20
              [] h = "pipe" /\ k = "power" /\ l = "n1-n2" /\ i = 0 -> 100
              [] h = "pipe" /\ k = "power" /\ l = "n2-n1" /\ i = 0 -> 40
              [] h = "stor" /\ k = "energy" /\ l = "n2" /\ i = 0 -> 50
              [] OTHER -> 0]]]]

ExistingSets ==
    [DefaultSets EXCEPT !.set_technologies_existing =
        [h \in set_technologies |-> IF h = "conv1" THEN {0, 1} ELSE {0}]]

\* remaining lifetime le0 of generation 0 and le1 of generation 1
LifetimeExisting(le0, le1) ==
    [h \in set_technologies |-> [l \in set_location |->
        [i \in ExistingIds |-> IF i = 0 THEN le0 ELSE le1]]]

\* investments taken before the current horizon, different for every year
InvestmentExisting ==
    [h \in set_technologies |-> [k \in set_capacity_types |-> [l \in set_location |->
        [y \in 0..(NumYears - 1) |-> 10 + y]]]]

\* lifetimes, construction times and the start of the current horizon
LifetimeScenarios ==
    {[sets |-> [ExistingSets EXCEPT !.set_time_steps_yearly = YearList(y0, NumYears)],
      system |-> [DefaultSystem EXCEPT !.interval_between_years = dy],
      parameters |-> [DefaultParameters EXCEPT
            !.lifetime = [h \in set_technologies |-> IF h \in {"conv1", "stor"} THEN l1 ELSE 2],
            !.construction_time = [h \in set_technologies |->
                                        IF h \in {"conv1", "pipe"} THEN ct1 ELSE MaxConstructionTime],
            !.capacity_existing = ExistingCapacity,
            !.lifetime_existing = LifetimeExisting(le0, 1),
            !.capacity_investment_existing = InvestmentExisting]] :
        dy \in 1..MaxInterval, l1 \in 1..MaxLifetime, ct1 \in 0..MaxConstructionTime,
        y0 \in {0, 1}, le0 \in {1, MaxLifetime - 1}}

\* maximum capacity additions: zero, finite and infinite
MaxAdditionScenarios ==
    {[sets |-> DefaultSets,
      system |-> DefaultSystem,
      parameters |-> [DefaultParameters EXCEPT
            !.capacity_addition_max = [h \in set_technologies |-> [k \in set_capacity_types |->
                IF h = "conv1" \/ (h = "stor" /\ k = "power") THEN m1 ELSE m2]]]] :
        m1 \in {Zero, Num(2), Inf}, m2 \in {Zero, Num(5), Inf}}

\* diffusion rates (finite and infinite), depreciation, spillover, market share
DiffusionScenarios ==
    {[sets |-> [ExistingSets EXCEPT !.set_reference_carriers =
                    [h \in set_technologies |-> IF h \in {"conv1", "stor"} THEN <<"c1">> ELSE <<rc>>]],
      system |-> [DefaultSystem EXCEPT !.interval_between_years = dy,
                                       !.knowledge_depreciation_rate = kd],
      parameters |-> [DefaultParameters EXCEPT
            !.max_diffusion_rate = [h \in set_technologies |-> [y \in 0..(NumYears - 1) |->
                IF h \in {"conv1", "pipe"} THEN (IF y = 1 THEN ra ELSE rb) ELSE Num(1)]],
            !.capacity_existing = IF ex THEN ExistingCapacity ELSE NoCapacity,
            !.lifetime_existing = LifetimeExisting(2, 1),
            !.capacity_addition_unbounded = [h \in set_technologies |-> zeta],
            !.knowledge_spillover_rate = ks,
            !.market_share_unbounded = ms]] :
        dy \in 1..MaxInterval, kd \in {Zero, Frac(1, 2)}, ks \in {Zero, Frac(1, 2)},
        ms \in {Zero, Frac(1, 10)}, zeta \in {Zero, Num(3)}, ra \in {Frac(1, 2), Inf},
        rb \in {Frac(1, 2), Inf}, ex \in BOOLEAN, rc \in set_carriers}

\* diffusion rate 0.1 over an interval of 5 years, no depreciation, existing stock of 100
DiffusionExample ==
    {[sets |-> ExistingSets,
      system |-> [DefaultSystem EXCEPT !.interval_between_years = 5],
      parameters |-> [DefaultParameters EXCEPT
            !.max_diffusion_rate = [h \in set_technologies |->
                                        [y \in 0..(NumYears - 1) |-> Frac(1, 10)]],
            !.lifetime = [h \in set_technologies |-> 10],
            !.capacity_existing = [ExistingCapacity EXCEPT !["conv1"]["power"]["n1"][1] = 0],
            !.lifetime_existing = LifetimeExisting(10, 10),
            !.capacity_addition_unbounded = [h \in set_technologies |-> Num(3)]]]}

\* what asks for binary variables: capex per distance of the transport technology,
\* minimum and maximum capacity additions, technologies with on/off behaviour
InstallationScenarios ==
    {[sets |-> [DefaultSets EXCEPT !.set_on_off = on_off],
      system |-> DefaultSystem,
      parameters |-> [DefaultParameters EXCEPT
            !.distance = [h \in set_transport_technologies |->
                            [e \in set_edges |-> IF e = "n2-n3" THEN Zero ELSE Num(10)]],
            !.capex_per_distance_transport = [h \in set_transport_technologies |->
                            [e \in set_edges |-> cpd]],
            !.capacity_addition_min = CapacityAdditionMin(n1, n2),
            !.capacity_addition_max = [h \in set_technologies |-> [k \in set_capacity_types |->
                IF h = "conv1" \/ (h = "stor" /\ k = "power") THEN m1 ELSE Inf]]]] :
        on_off \in {{}, {"conv1"}, {"pipe", "stor"}}, cpd \in {Zero, Num(3)},
        n1 \in {Zero, Num(1)}, n2 \in {Zero, Num(1)}, m1 \in {Zero, Num(2), Inf}}

\* technologies with on/off behaviour and an existing stock: lifetimes of the existing
\* generations below and above the lifetime of the technology, maximum additions, limits
BigMScenarios ==
    {[sets |-> [ExistingSets EXCEPT !.set_time_steps_yearly = YearList(y0, NumYears),
                                    !.set_on_off = {"conv1", "pipe"}],
      system |-> [DefaultSystem EXCEPT !.interval_between_years = dy],
      parameters |-> [DefaultParameters EXCEPT
            !.capacity_existing = ExistingCapacity,
            !.lifetime_existing = LifetimeExisting(le0, 1),
            !.capacity_addition_max = [h \in set_technologies |-> [k \in set_capacity_types |->
                                            IF h = "conv1" THEN m1 ELSE Inf]],
            !.capacity_limit = [h \in set_technologies |-> [k \in set_capacity_types |->
                [l \in set_location |-> [y \in 0..(NumYears - 1) |->
                    IF h = "pipe" THEN Inf ELSE Num(100 + y)]]]]]] :
        dy \in 1..MaxInterval, y0 \in {0, 1}, le0 \in 1..MaxLifetime, m1 \in {Zero, Num(2), Inf}}

TechnologyScenarios ==
    LifetimeScenarios \cup MaxAdditionScenarios \cup DiffusionScenarios \cup DiffusionExample
        \cup InstallationScenarios \cup BigMScenarios

InitTechnology ==
    /\ \E sc \in TechnologyScenarios :
            sets = sc.sets /\ system = sc.system /\ parameters = sc.parameters
    /\ variables = NoVariables
    /\ constraints = NoConstraints
    /\ docs = {}
    /\ objective = {}
    /\ listOfElements = <<>>
    /\ dictReversedEdges = <<>>
    /\ indexSets = <<>>
    /\ componentDocs = <<>>
    /\ calls = <<>>
    /\ dict_elements = <<>>
    /\ tsa = <<>>
    /\ energy_system = <<>>
    /\ pc = "Technology.construct_vars"

\* Technology.construct_vars
TechnologyConstructVars ==
    /\ pc = "Technology.construct_vars"
    /\ variables' = construct_vars(variables, sets, parameters)
    /\ pc' = "constraint_technology_capacity_limit"
    /\ UNCHANGED <<indexSets, componentDocs, calls, dict_elements, tsa, energy_system, sets, system, parameters, constraints, docs, listOfElements, dictReversedEdges, objective>>

\* one step of Technology.construct_constraints: the rule adds its constraints
RuleStep(here, next, cons) ==
    /\ pc = here
    /\ constraints' = cons
    /\ docs' = docs \cup (DOMAIN cons)
    /\ pc' = next
    /\ UNCHANGED <<indexSets, componentDocs, calls, dict_elements, tsa, energy_system, sets, system, parameters, variables, listOfElements, dictReversedEdges, objective>>

RuleCapacityLimit ==
    RuleStep("constraint_technology_capacity_limit",
             "constraint_technology_min_capacity_addition",
             add_constraint(constraints, docs, "constraint_technology_capacity_limit",
                            constraint_technology_capacity_limit(sets, system, parameters)))

\* the rule returns without a constraint if its mask is empty
RuleMinCapacityAddition ==
    RuleStep("constraint_technology_min_capacity_addition",
             "constraint_technology_max_capacity_addition",
             IF min_capacity_addition_mask(sets, parameters) = {} THEN constraints
             ELSE add_constraint(constraints, docs, "constraint_technology_min_capacity_addition",
                                 constraint_technology_min_capacity_addition(sets, parameters)))

RuleMaxCapacityAddition ==
    RuleStep("constraint_technology_max_capacity_addition",
             "constraint_technology_construction_time",
             add_constraint(constraints, docs, "constraint_technology_max_capacity_addition",
                            constraint_technology_max_capacity_addition(sets, parameters)))

RuleConstructionTime ==
    RuleStep("constraint_technology_construction_time",
             "constraint_technology_lifetime",
             add_constraint(constraints, docs, "constraint_technology_construction_time",
                            constraint_technology_construction_time(sets, system, parameters)))

RuleLifetime ==
    RuleStep("constraint_technology_lifetime",
             "constraint_technology_diffusion_limit",
             add_constraint(
                add_constraint(constraints, docs, "constraint_technology_lifetime",
                               constraint_technology_lifetime(sets, system, parameters)),
                docs, "constraint_technology_lifetime_previous",
                constraint_technology_lifetime_previous(sets, system, parameters)))

RuleDiffusionLimit ==
    RuleStep("constraint_technology_diffusion_limit",
             "disjunct_on_technology",
             add_constraint(
                add_constraint(constraints, docs, "constraint_technology_diffusion_limit",
                               constraint_technology_diffusion_limit(sets, system, parameters)),
                docs, "constraint_technology_diffusion_limit_total",
                constraint_technology_diffusion_limit_total(sets, system, parameters)))

\* the on/off part of Technology.construct_constraints
TechnologyOnOff ==
    /\ pc = "disjunct_on_technology"
    /\ LET built == construct_constraints_on_off(variables, constraints, sets, parameters)
       IN /\ variables' = built.variables
          /\ constraints' = built.constraints
    /\ pc' = "TransportTechnology.construct_constraints"
    /\ UNCHANGED <<indexSets, componentDocs, calls, dict_elements, tsa, energy_system, sets, system, parameters, docs, listOfElements, dictReversedEdges, objective>>

\* the constraints of the subclass TransportTechnology
RuleTransportTechnologyCapex ==
    RuleStep("TransportTechnology.construct_constraints", "done",
             add_constraint(constraints, docs, "constraint_transport_technology_capex",
                            constraint_transport_technology_capex(sets, parameters)))

NextTechnology ==
    \/ TechnologyConstructVars
    \/ RuleCapacityLimit
    \/ RuleMinCapacityAddition
    \/ RuleMaxCapacityAddition
    \/ RuleConstructionTime
    \/ RuleLifetime
    \/ RuleDiffusionLimit
    \/ TechnologyOnOff
    \/ RuleTransportTechnologyCapex

SpecTechnology == InitTechnology /\ [][NextTechnology]_vars

(***************************************************************************)
(* Transport technologies of the pyomo model (class TransportTechnology).  *)
(* sets holds the energy system (setEdges, setNodesOnEdges, time steps),   *)
(* system the system settings, parameters the input data of every          *)
(* technology (self.dataInput and the attributes read by class Technology) *)
(***************************************************************************)
\* the edge that connects the nodes of edge in the other direction; without such an
\* edge the lookup raises KeyError
calculateReversedEdge(s, edge) ==
    LET nodes == s.setNodesOnEdges[edge]
        found == {i \in DOMAIN s.setEdges :
                    s.setNodesOnEdges[s.setEdges[i]] = <<nodes[2], nodes[1]>>}
    IN IF found = {} THEN "KeyError" ELSE s.setEdges[Min(found)]

\* TransportTechnology.setReversedEdge on the class dictionary dict
setReversedEdge(dict, edge, reversedEdge) ==
    [e \in DOMAIN dict \cup {edge} |-> IF e = edge THEN reversedEdge ELSE dict[e]]

\* TransportTechnology.getReversedEdge
getReversedEdge(dict, edge) == dict[edge]

\* the loop of checkIfBidirectional from the i-th edge on: the entries set so far stay
\* in the dictionary when the loop is left by an exception
RECURSIVE checkIfBidirectionalFrom(_, _, _, _)
checkIfBidirectionalFrom(s, existingCapacity, dict, i) ==
    IF i > Len(s.setEdges) THEN [dictReversedEdges |-> dict, raised |-> "none"]
    ELSE LET edge == s.setEdges[i]
             reversedEdge == calculateReversedEdge(s, edge)
         IN IF reversedEdge = "KeyError"
            THEN [dictReversedEdges |-> dict, raised |-> "KeyError"]
            ELSE IF existingCapacity[edge] # existingCapacity[reversedEdge]
            THEN [dictReversedEdges |-> setReversedEdge(dict, edge, reversedEdge),
                  raised |-> "AssertionError"]
            ELSE checkIfBidirectionalFrom(s, existingCapacity,
                                          setReversedEdge(dict, edge, reversedEdge), i + 1)

\* variant: the reversed edges are recorded without comparing the existing capacities
checkIfBidirectional_unchecked(s, existingCapacity, dict) ==
    IF \E i \in DOMAIN s.setEdges : calculateReversedEdge(s, s.setEdges[i]) = "KeyError"
    THEN [dictReversedEdges |-> dict, raised |-> "KeyError"]
    ELSE [dictReversedEdges |->
            [e \in DOMAIN dict \cup Range(s.setEdges) |->
                IF e \in Range(s.setEdges) THEN calculateReversedEdge(s, e) ELSE dict[e]],
          raised |-> "none"]

checkIfBidirectional(s, existingCapacity, dict) ==
    checkIfBidirectionalFrom(s, existingCapacity, dict, 1)

\* annualized capex of one existing capacity: the capex of the first invest step
calculateCapexOfSingleCapacity(s, capexSpecific, capacity, edge) ==
    XMul(capexSpecific[edge][Min(s.setTimeStepsInvest)], Num(capacity))

\* TransportTechnology.storeInputData of technology tech: the attributes of the
\* element, the class dictionary afterwards and the exception that ends it, if any
storeInputData(s, sys, p, dict, tech) ==
    LET dataInput == p[tech]
        edges == Range(s.setEdges)
        distance == [e \in edges |-> dataInput.distanceEuclidean[e]]
        perDistance == "capexPerDistance" \in dataInput.attributes
        specific == "capexSpecific" \in dataInput.attributes
        capexSpecificInput ==
            [e \in edges |-> [t \in s.setTimeStepsInvest |->
                IF sys.DoubleCapexTransport THEN dataInput.capexSpecific
                ELSE IF perDistance THEN XMul(dataInput.capexPerDistance, Num(distance[e]))
                ELSE dataInput.capexSpecific]]
        capexPerDistanceInput ==
            [e \in edges |-> [t \in s.setTimeStepsInvest |->
                IF sys.DoubleCapexTransport THEN dataInput.capexPerDistance
                ELSE XMul(capexSpecificInput[e][t], Zero)]]
        fixedOpexSpecific ==
            [e \in edges |-> [t \in s.setTimeStepsInvest |->
                IF ~sys.DoubleCapexTransport /\ perDistance
                THEN XMul(dataInput.fixedOpexSpecific, Num(distance[e]))
                ELSE dataInput.fixedOpexSpecific]]
        \* convertToAnnualizedCapex
        fractionalAnnuity == dataInput.fractionalAnnuity
        capexSpecific ==
            [e \in edges |-> [t \in s.setTimeStepsInvest |->
                XAdd(XMul(capexSpecificInput[e][t], fractionalAnnuity), fixedOpexSpecific[e][t])]]
        capexPerDistance ==
            [e \in edges |-> [t \in s.setTimeStepsInvest |->
                XMul(capexPerDistanceInput[e][t], fractionalAnnuity)]]
        existingCapacity == [e \in edges |-> dataInput.existingCapacity[e]]
        capexExistingCapacity ==
            [e \in edges |-> [i \in DOMAIN existingCapacity[e] |->
                calculateCapexOfSingleCapacity(s, capexSpecific, existingCapacity[e][i], e)]]
        element == [name |-> tech,
                    distance |-> distance,
                    lossFlow |-> dataInput.lossFlow,
                    capexSpecific |-> capexSpecific,
                    capexPerDistance |-> capexPerDistance,
                    fixedOpexSpecific |-> fixedOpexSpecific,
                    existingCapacity |-> existingCapacity,
                    capexExistingCapacity |-> capexExistingCapacity]
        check == IF InList(tech, sys.setBidirectionalTransportTechnologies)
                 THEN checkIfBidirectional(s, existingCapacity, dict)
                 ELSE [dictReversedEdges |-> dict, raised |-> "none"]
    IN IF ~sys.DoubleCapexTransport /\ ~perDistance /\ ~specific
       THEN [element |-> element, dictReversedEdges |-> dict, raised |-> "AttributeError"]
       ELSE [element |-> element, dictReversedEdges |-> check.dictReversedEdges,
             raised |-> check.raised]

\* the element of listOfElements with the given name
getElement(elements, tech) ==
    elements[CHOOSE i \in DOMAIN elements : elements[i].name = tech]

\* createCustomSet(["setTransportTechnologies", "setEdges", <time steps>])
createCustomSet(s, sys, timeSteps) ==
    {<<sys.setTransportTechnologies[i], e, t>> :
        i \in DOMAIN sys.setTransportTechnologies, e \in Range(s.setEdges), t \in timeSteps}

\* the constraint rules return the rows they add: one row, or none for Constraint.Skip
constraintTransportTechnologyLossesFlowRule(elements, tech, edge, time) ==
    {Row(tech, "-", "-", edge, time,
         {Term("carrierLoss", tech, "-", "-", edge, time, One),
          Term("carrierFlow", tech, "-", "-", edge, time,
               XNeg(XMul(Num(getElement(elements, tech).distance[edge]),
                         getElement(elements, tech).lossFlow)))},
         "==", Zero)}

constraintCapexTransportTechnologyRule(elements, tech, edge, time) ==
    {Row(tech, "power", "-", edge, time,
         {Term("capex", tech, "power", "-", edge, time, One),
          Term("builtCapacity", tech, "power", "-", edge, time,
               XNeg(getElement(elements, tech).capexSpecific[edge][time])),
          Term("installTechnology", tech, "power", "-", edge, time,
               XNeg(XMul(Num(getElement(elements, tech).distance[edge]),
                         getElement(elements, tech).capexPerDistance[edge][time])))},
         "==", Zero)}

\* variant: the capacity of the edge is equated with itself, not with the reversed edge
constraintBidirectionalTransportTechnologyRule_same_edge(sys, dict, tech, edge, time) ==
    IF InList(tech, sys.setBidirectionalTransportTechnologies)
    THEN {Row(tech, "power", "-", edge, time,
              {Term("builtCapacity", tech, "power", "-", edge, time, One),
               Term("builtCapacity", tech, "power", "-", edge, time, XNeg(One))},
              "==", Zero)}
    ELSE {}

constraintBidirectionalTransportTechnologyRule(sys, dict, tech, edge, time) ==
    IF InList(tech, sys.setBidirectionalTransportTechnologies)
    THEN LET reversedEdge == getReversedEdge(dict, edge)
         IN {Row(tech, "power", "-", edge, time,
                 {Term("builtCapacity", tech, "power", "-", edge, time, One),
                  Term("builtCapacity", tech, "power", "-", reversedEdge, time, XNeg(One))},
                 "==", Zero)}
    ELSE {}

\* pe.Constraint(index set, rule): the rows of the rule over the index set
peConstraint(cons, name, rows) ==
    [n \in DOMAIN cons \cup {name} |-> IF n = name THEN rows ELSE cons[n]]

(***************************************************************************)
(* Assembly of the transport technologies of the pyomo model               *)
(***************************************************************************)
TransportEdges == {<<"n1-n2", "n2-n1">>, <<"n2-n1", "n1-n2">>,
                   <<"n1-n2", "n2-n1", "n2-n3">>, <<"n2-n3", "n1-n2", "n2-n1">>}

\* existing capacities of two generations; equal in both directions or not
TransportExistingCapacity(symmetric) ==
    [e \in set_edges |->
        IF e = "n2-n1" /\ ~symmetric THEN <<4, 3>> ELSE <<4, 2>>]

TransportDataInput(attributes, symmetric, length) ==
    [distanceEuclidean |-> [e \in set_edges |-> IF e = "n2-n3" THEN length + 1 ELSE length],
     lossFlow |-> Frac(1, 10),
     attributes |-> attributes,
     capexSpecific |-> Num(6),
     capexPerDistance |-> Num(2),
     fixedOpexSpecific |-> One,
     fractionalAnnuity |-> Frac(1, 2),
     existingCapacity |-> TransportExistingCapacity(symmetric)]

InitTransport ==
    /\ \E edges \in TransportEdges :
            sets = [setEdges |-> edges,
                    setNodesOnEdges |-> [e \in Range(edges) |-> set_nodes_on_edges[e]],
                    setTimeStepsInvest |-> 0..(NumYears - 1),
                    setTimeStepsOperation |-> {0, 1},
                    setNodes |-> set_nodes,
                    setTimeSteps |-> {0, 1},
                    setInputCarriers |-> {"c1"},
                    setOutputCarriers |-> {"c2"}]
    /\ \E bidirectional \in {<<>>, <<"pipeline">>, <<"truck">>, <<"pipeline", "truck">>},
          double \in BOOLEAN, production \in {<<>>, <<"electrolysis">>} :
            system = [setTransportTechnologies |-> <<"pipeline", "truck">>,
                      setProductionTechnologies |-> production,
                      setStorageTechnologies |-> <<>>,
                      setBidirectionalTransportTechnologies |-> bidirectional,
                      DoubleCapexTransport |-> double]
    /\ \E attributes \in SUBSET {"capexSpecific", "capexPerDistance"},
          s1 \in BOOLEAN, s2 \in BOOLEAN :
            parameters = [h \in {"pipeline", "truck"} |->
                            IF h = "pipeline" THEN TransportDataInput(attributes, s1, 3)
                            ELSE TransportDataInput({"capexSpecific"}, s2, 5)]
    /\ variables = NoVariables
    /\ constraints = NoConstraints
    /\ docs = {}
    /\ objective = {}
    /\ listOfElements = <<>>
    /\ dictReversedEdges = <<>>
    /\ indexSets = <<>>
    /\ componentDocs = <<>>
    /\ calls = <<>>
    /\ dict_elements = <<>>
    /\ tsa = <<>>
    /\ energy_system = <<>>
    /\ pc = "TransportTechnology.__init__"

\* TransportTechnology.__init__ of the next transport technology of the system; an
\* exception of storeInputData is fatal, the element is then not added
TransportTechnologyInit ==
    /\ pc = "TransportTechnology.__init__"
    /\ LET tech == system.setTransportTechnologies[Len(listOfElements) + 1]
           stored == storeInputData(sets, system, parameters, dictReversedEdges, tech)
       IN /\ dictReversedEdges' = stored.dictReversedEdges
          /\ IF stored.raised = "none"
             THEN /\ listOfElements' = Append(listOfElements, stored.element)
                  /\ pc' = IF Len(listOfElements) + 1 = Len(system.setTransportTechnologies)
                           THEN "TransportTechnology.constructConstraints"
                           ELSE "TransportTechnology.__init__"
             ELSE /\ listOfElements' = listOfElements
                  /\ pc' = stored.raised
    /\ UNCHANGED <<indexSets, componentDocs, calls, dict_elements, tsa, energy_system, sets, system, parameters, variables, constraints, docs, objective>>

\* TransportTechnology.constructConstraints: the three constraints of the class
TransportTechnologyConstructConstraints ==
    /\ pc = "TransportTechnology.constructConstraints"
    /\ constraints' =
        peConstraint(
            peConstraint(
                peConstraint(constraints, "constraintTransportTechnologyLossesFlow",
                    UNION {constraintTransportTechnologyLossesFlowRule(
                                listOfElements, x[1], x[2], x[3]) :
                           x \in createCustomSet(sets, system, sets.setTimeStepsOperation)}),
                "constraintCapexTransportTechnology",
                UNION {constraintCapexTransportTechnologyRule(listOfElements, x[1], x[2], x[3]) :
                       x \in createCustomSet(sets, system, sets.setTimeStepsInvest)}),
            "constraintBidirectionalTransportTechnology",
            UNION {constraintBidirectionalTransportTechnologyRule(
                        system, dictReversedEdges, x[1], x[2], x[3]) :
                   x \in createCustomSet(sets, system, sets.setTimeStepsInvest)})
    /\ pc' = "ObjectiveFunction.__init__"
    /\ UNCHANGED <<indexSets, componentDocs, calls, dict_elements, tsa, energy_system, sets, system, parameters, variables, docs, listOfElements, dictReversedEdges, objective>>

\* Model.addElements: the sets that the technology classes put on the pyomo model
ModelSets(sys) ==
    (IF Len(sys.setProductionTechnologies) > 0 THEN {"setProductionTechnologies"} ELSE {})
    \cup (IF Len(sys.setTransportTechnologies) > 0 THEN {"setTransportTechnologies"} ELSE {})

\* hasattr(model, name) for the name of a set
hasattr(sys, name) == name \in ModelSets(sys)

\* prices of the pyomo model
importPriceCarrier == Num(2)
exportPriceCarrier == Num(1)

\* ObjectiveFunction.objectiveTotalCostRule: carrierImport - carrierExport + installCost;
\* the install variables of the transport technologies are indexed by node and alias
\* node, the alias node is kept in the carrier coordinate of the term
objectiveTotalCostRule(s, sys) ==
    LET carrierImport ==
            {Term("importCarrier", "-", "-", x[1], x[2], x[3], importPriceCarrier) :
                x \in s.setInputCarriers \X s.setNodes \X s.setTimeSteps}
        carrierExport ==
            {Term("exportCarrier", "-", "-", x[1], x[2], x[3], XNeg(exportPriceCarrier)) :
                x \in s.setOutputCarriers \X s.setNodes \X s.setTimeSteps}
        installCostOf(techType) ==
            IF hasattr(sys, "set" \o techType \o "Technologies")
            THEN {Term("installProductionTechnologies", x[1], "-", "-", x[2], x[3], One) :
                    x \in Range(IF techType = "Production" THEN sys.setProductionTechnologies
                                ELSE sys.setStorageTechnologies) \X s.setNodes \X s.setTimeSteps}
            ELSE {}
        installCostTransport ==
            IF hasattr(sys, "setTransport")
            THEN {Term("installTransportTechnologies", x[1], "-", x[3], x[2], x[4], One) :
                    x \in Range(sys.setTransportTechnologies) \X s.setNodes \X s.setNodes
                            \X s.setTimeSteps}
            ELSE {}
    IN carrierImport \cup carrierExport \cup installCostOf("Production")
        \cup installCostOf("Storage") \cup installCostTransport

\* ObjectiveFunction.__init__ with analysis['objective'] = 'TotalCost'
ObjectiveFunctionInit ==
    /\ pc = "ObjectiveFunction.__init__"
    /\ objective' = objectiveTotalCostRule(sets, system)
    /\ pc' = "done"
    /\ UNCHANGED <<indexSets, componentDocs, calls, dict_elements, tsa, energy_system, sets, system, parameters, variables, constraints, docs, listOfElements,
                   dictReversedEdges>>

NextTransport ==
    \/ TransportTechnologyInit
    \/ TransportTechnologyConstructConstraints
    \/ ObjectiveFunctionInit

SpecTransport == InitTransport /\ [][NextTransport]_vars

(***************************************************************************)
(* TimeSeriesAggregation (time_series_aggregation.py).  A sequence of time *)
(* steps is a function on the base hours 0..L-1.  A raw series has one     *)
(* location column and is a function on the base hours of one year; an     *)
(* aggregated series is a function on the operational time steps.  An      *)
(* element is a record                                                     *)
(*   name, raw_time_series, series (the attributes set by setattr),        *)
(*   set_time_steps_operation, time_steps_operation_duration,              *)
(*   sequence_time_steps, aggregated.                                      *)
(***************************************************************************)
HoursPerYear == 3
OptimizedYears == 2

\* np.hstack([sequence] * n)
hstack(sequence, length, n) == [b \in 0..(length * n - 1) |-> sequence[b % length]]

\* the number of base hours a sequence maps to a time step
CountOf(sequence, time_step) == Cardinality({b \in DOMAIN sequence : sequence[b] = time_step})

\* len(np.unique(column)) != 1
NonConstant(column) == Cardinality({column[h] : h \in DOMAIN column}) # 1

\* the values of column on the hours of S in ascending order
RECURSIVE SortedValues(_, _)
SortedValues(S, column) ==
    IF S = {} THEN <<>>
    ELSE LET h == CHOOSE x \in S : \A y \in S : XLeq(column[x], column[y])
         IN <<column[h]>> \o SortedValues(S \ {h}, column)

\* DataFrame.mean(axis=0) of the rows S
Mean(S, column) == XMul(XSum(S, column), Frac(1, Cardinality(S)))

\* DataFrame.median(axis=0) of the rows S
Median(S, column) ==
    LET sorted == SortedValues(S, column)
        n == Len(sorted)
    IN IF n = 0 THEN NaN
       ELSE IF n % 2 = 1 THEN sorted[(n + 1) \div 2]
       ELSE XMul(XAdd(sorted[n \div 2], sorted[n \div 2 + 1]), Frac(1, 2))

\* the element of a name, and the (element, attribute) pairs of the raw time series
ElementOf(elems, name) == elems[CHOOSE i \in DOMAIN elems : elems[i].name = name]
RawTimeSeriesOf(elems) ==
    UNION {{<<elems[i].name, ts>> : ts \in DOMAIN elems[i].raw_time_series} : i \in DOMAIN elems}

\* TimeSeriesAggregation.get_excluded_ts: the (element, parameter) pairs to be excluded;
\* a row names an element and a parameter ("nan": all parameters of the element)
get_excluded_ts(sys, elems, excluded_parameters) ==
    IF sys.exclude_parameters_from_TSA /\ excluded_parameters.exists
    THEN {pair \in RawTimeSeriesOf(elems) :
            \E vals \in excluded_parameters.rows :
                /\ vals[1] = pair[1]
                /\ vals[2] \in {"nan", pair[2]}}
    ELSE {}

\* TimeSeriesAggregation.extract_raw_ts: the columns of an element that are clustered
extract_raw_ts(excluded_ts, element) ==
    {<<element.name, ts>> : ts \in {name \in DOMAIN element.raw_time_series :
        /\ NonConstant(element.raw_time_series[name])
        /\ <<element.name, name>> \notin excluded_ts}}

\* TimeSeriesAggregation.select_ts_of_all_elements: the columns of df_ts_raw
select_ts_of_all_elements(excluded_ts, elems) ==
    UNION {extract_raw_ts(excluded_ts, elems[i]) : i \in DOMAIN elems}

\* tsam: the cluster orders that createTypicalPeriods can return for k typical periods,
\* every period of one hour assigned to one of the clusters 0..k-1, none of them empty
ClusterOrders(H, k) ==
    {order \in [0..(H - 1) -> 0..(k - 1)] : \A c \in 0..(k - 1) : \E h \in 0..(H - 1) : order[h] = c}

\* tsam: the representative value of a cluster, the centroid (k_means) or the medoid
\* (k_medoids: a member with the least distance to the other members)
Distance(a, b) == IF XLeq(a, b) THEN XSub(b, a) ELSE XSub(a, b)
TypicalValue(method, members, column) ==
    IF method = "k_means" THEN Mean(members, column)
    ELSE LET total(h) == XSum(members, [g \in members |-> Distance(column[h], column[g])])
             best == {h \in members : \A g \in members : XLeq(total(h), total(g))}
         IN column[Min(best)]

\* tsam createTypicalPeriods: one row per cluster for every column of df_ts_raw
createTypicalPeriods(method, columns, elems, order, k) ==
    [pair \in columns |->
        [c \in 0..(k - 1) |->
            TypicalValue(method, {h \in DOMAIN order : order[h] = c},
                         ElementOf(elems, pair[1]).raw_time_series[pair[2]])]]

\* TimeSeriesAggregation.manually_aggregate_ts
manually_aggregate_ts(agg, method, column) ==
    IF method \notin {"k_means", "k_medoids"}
    THEN [raised |-> "NotImplementedError", series |-> <<>>]
    ELSE [raised |-> "none",
          series |-> [time_step \in agg.set_time_steps |->
            LET rows == {h \in DOMAIN column : agg.sequence_time_steps[h] = time_step}
            IN IF method = "k_means" THEN Mean(rows, column) ELSE Median(rows, column)]]

\* the TimeSeriesAggregation object before __init__ has set an attribute
NoTimeSeriesAggregation ==
    [attributes |-> {}, number_typical_periods |-> 0, conducted_tsa |-> FALSE,
     excluded_ts |-> {}, df_ts_raw |-> {}, typical_periods |-> <<>>,
     set_time_steps |-> {}, time_steps_duration |-> <<>>, sequence_time_steps |-> <<>>]

\* TimeSeriesAggregation.set_time_attributes for the TimeSeriesAggregation object
set_time_attributes_tsa(agg, set_time_steps, time_steps_duration, sequence_time_steps) ==
    [agg EXCEPT !.set_time_steps = set_time_steps,
                !.time_steps_duration = time_steps_duration,
                !.sequence_time_steps = sequence_time_steps]

\* TimeSeriesAggregation.set_time_attributes for an element
set_time_attributes(element, set_time_steps, time_steps_duration, sequence_time_steps) ==
    [element EXCEPT !.set_time_steps_operation = set_time_steps,
                    !.time_steps_operation_duration = time_steps_duration,
                    !.sequence_time_steps = sequence_time_steps]

\* time_steps.set_sequence_time_steps(element.name, sequence, "operation")
set_sequence_time_steps(es, name, sequence) ==
    [es EXCEPT !.sequence_time_steps_operation =
        (name :> sequence) @@ es.sequence_time_steps_operation]

\* one raw time series in set_aggregated_ts_all_elements: the aggregated series
AggregatedTimeSeries(agg, method, element, ts) ==
    LET column == element.raw_time_series[ts]
        pair == <<element.name, ts>>
    IN IF "excluded_ts" \notin agg.attributes
       THEN [raised |-> "AttributeError", series |-> <<>>]
       ELSE IF pair \in agg.excluded_ts
       THEN manually_aggregate_ts(agg, method, column)
       ELSE [raised |-> "none",
             series |-> [time_step \in agg.set_time_steps |->
                IF pair \in DOMAIN agg.typical_periods
                THEN agg.typical_periods[pair][time_step]
                ELSE column[time_step]]]

\* one element in set_aggregated_ts_all_elements
AggregatedElement(agg, method, element) ==
    LET timed == set_time_attributes(element, agg.set_time_steps, agg.time_steps_duration,
                                     agg.sequence_time_steps)
        names == DOMAIN element.raw_time_series
        failed == {ts \in names : AggregatedTimeSeries(agg, method, element, ts).raised # "none"}
    IN IF failed # {}
       THEN [raised |-> AggregatedTimeSeries(agg, method, element, CHOOSE ts \in failed : TRUE).raised,
             element |-> timed]
       ELSE [raised |-> "none",
             element |-> [timed EXCEPT
                !.series = [ts \in names |-> AggregatedTimeSeries(agg, method, element, ts).series],
                !.aggregated = (names # {})]]

RECURSIVE set_aggregated_ts_from(_, _, _, _, _)
set_aggregated_ts_from(agg, method, elems, es, i) ==
    IF i > Len(elems) THEN [raised |-> "none", elements |-> elems, energy_system |-> es]
    ELSE LET r == AggregatedElement(agg, method, elems[i])
             done == [elems EXCEPT ![i] = r.element]
         IN IF r.raised # "none"
            THEN [raised |-> r.raised, elements |-> done, energy_system |-> es]
            ELSE set_aggregated_ts_from(agg, method, done,
                    IF r.element.aggregated
                    THEN set_sequence_time_steps(es, r.element.name, r.element.sequence_time_steps)
                    ELSE es,
                    i + 1)

\* TimeSeriesAggregation.set_aggregated_ts_all_elements
set_aggregated_ts_all_elements(agg, method, elems, es) ==
    set_aggregated_ts_from(agg, method, elems, es, 1)

\* the outcome of a part of __init__
Outcome(agg, r) ==
    [tsa |-> agg, raised |-> r.raised, elements |-> r.elements, energy_system |-> r.energy_system]

\* variant: the single time step stands for one hour
single_ts_tsa_one_hour(agg, sys, elems, es) ==
    LET unaggregated_time_steps == sys.unaggregated_time_steps_per_year
        timed == set_time_attributes_tsa([agg EXCEPT !.number_typical_periods = 1],
                    {0}, [time_step \in {0} |-> 1],
                    [b \in 0..(unaggregated_time_steps - 1) |-> 0])
        typical == [timed EXCEPT !.typical_periods = <<>>]
        r == set_aggregated_ts_all_elements(typical, sys.clusterMethod, elems, es)
    IN Outcome([typical EXCEPT !.conducted_tsa = (r.raised = "none")], r)

\* TimeSeriesAggregation.single_ts_tsa
single_ts_tsa(agg, sys, elems, es) ==
    LET unaggregated_time_steps == sys.unaggregated_time_steps_per_year
        timed == set_time_attributes_tsa([agg EXCEPT !.number_typical_periods = 1],
                    {0}, [time_step \in {0} |-> unaggregated_time_steps],
                    [b \in 0..(unaggregated_time_steps - 1) |-> 0])
        typical == [timed EXCEPT !.typical_periods = <<>>]
        r == set_aggregated_ts_all_elements(typical, sys.clusterMethod, elems, es)
    IN Outcome([typical EXCEPT !.conducted_tsa = (r.raised = "none")], r)

\* TimeSeriesAggregation.run_tsa for the cluster order that tsam returns
run_tsa(agg, sys, elems, es, order) ==
    LET k == agg.number_typical_periods
        typical == [agg EXCEPT !.typical_periods =
                        createTypicalPeriods(sys.clusterMethod, agg.df_ts_raw, elems, order, k)]
        timed == set_time_attributes_tsa(typical, 0..(k - 1),
                    [c \in 0..(k - 1) |-> CountOf(order, c)], order)
        r == set_aggregated_ts_all_elements(timed, sys.clusterMethod, elems, es)
    IN Outcome([timed EXCEPT !.conducted_tsa = (r.raised = "none")], r)

\* time_steps.calculatetime_step_duration(set_time_steps, set_base_time_steps)
calculatetime_step_duration(set_time_steps, set_base_time_steps) ==
    [time_step \in set_time_steps |-> 1]

\* __init__ without aggregation (the else branch)
without_aggregation(agg, sys, elems, es) ==
    LET set_time_steps == es.set_base_time_steps_yearly
        time_step_duration == calculatetime_step_duration(set_time_steps, es.set_base_time_steps_yearly)
        timed == set_time_attributes_tsa([agg EXCEPT !.typical_periods = <<>>],
                    set_time_steps, time_step_duration,
                    [b \in set_time_steps |-> b])
    IN Outcome(timed, set_aggregated_ts_all_elements(timed, sys.clusterMethod, elems, es))

\* __init__ up to the choice between run_tsa and single_ts_tsa
number_typical_periods(sys) ==
    Min({sys.unaggregated_time_steps_per_year, sys.aggregated_time_steps_per_year})

Aggregates(sys, es) ==
    /\ number_typical_periods(sys) < Cardinality(es.set_base_time_steps_yearly)
    /\ sys.conduct_time_series_aggregation

selected(sys, elems, excluded_parameters) ==
    LET excluded == get_excluded_ts(sys, elems, excluded_parameters)
    IN [NoTimeSeriesAggregation EXCEPT
            !.number_typical_periods = number_typical_periods(sys),
            !.attributes = {"excluded_ts", "df_ts_raw"},
            !.excluded_ts = excluded,
            !.df_ts_raw = select_ts_of_all_elements(excluded, elems)]

\* the rank of a column among the unique columns that np.unique(axis=1) returns sorted
\* (by the operational time step first, by the year second)
ColumnRank(column, columns) ==
    Cardinality({c \in columns : c[1] < column[1] \/ (c[1] = column[1] /\ c[2] < column[2])})

\* variant: the duration of a refined time step counts the hours of all years
unique_time_steps_multiple_indices_all_years(operation, yearly) ==
    LET combined == [b \in DOMAIN operation |-> <<operation[b], yearly[b]>>]
        columns == {combined[b] : b \in DOMAIN combined}
        first(idx) == CHOOSE b \in DOMAIN combined : ColumnRank(combined[b], columns) = idx
    IN IF \/ Cardinality({operation[b] : b \in DOMAIN operation}) = Cardinality(DOMAIN operation)
          \/ Cardinality({yearly[b] : b \in DOMAIN yearly}) = 1
       THEN [none |-> TRUE, set_time_steps |-> {}, time_steps_duration |-> <<>>,
             sequence_time_steps |-> <<>>]
       ELSE [none |-> FALSE,
             set_time_steps |-> 0..(Cardinality(columns) - 1),
             time_steps_duration |->
                [idx \in 0..(Cardinality(columns) - 1) |-> CountOf(operation, operation[first(idx)])],
             sequence_time_steps |-> [b \in DOMAIN combined |-> ColumnRank(combined[b], columns)]]

\* TimeSeriesAggregation.unique_time_steps_multiple_indices for the sequences of the
\* operation and of the years; none: the method returns None, the time steps are not refined
unique_time_steps_multiple_indices(operation, yearly) ==
    LET combined == [b \in DOMAIN operation |-> <<operation[b], yearly[b]>>]
        columns == {combined[b] : b \in DOMAIN combined}
    IN IF \/ Cardinality({operation[b] : b \in DOMAIN operation}) = Cardinality(DOMAIN operation)
          \/ Cardinality({yearly[b] : b \in DOMAIN yearly}) = 1
       THEN [none |-> TRUE, set_time_steps |-> {}, time_steps_duration |-> <<>>,
             sequence_time_steps |-> <<>>]
       ELSE [none |-> FALSE,
             set_time_steps |-> 0..(Cardinality(columns) - 1),
             time_steps_duration |->
                [idx \in 0..(Cardinality(columns) - 1) |->
                    Cardinality({b \in DOMAIN combined : ColumnRank(combined[b], columns) = idx})],
             sequence_time_steps |-> [b \in DOMAIN combined |-> ColumnRank(combined[b], columns)]]

\* TimeSeriesAggregation.overwrite_ts_with_expanded_timeindex (without a yearly variation)
overwrite_ts_with_expanded_timeindex(element, set_time_steps_operation, sequence_time_steps) ==
    LET old_sequence_time_steps == element.sequence_time_steps
        idx_old2new == [idx \in set_time_steps_operation |->
            CHOOSE old \in {old_sequence_time_steps[b] : b \in DOMAIN old_sequence_time_steps} :
                \E b \in DOMAIN sequence_time_steps :
                    sequence_time_steps[b] = idx /\ old_sequence_time_steps[b] = old]
    IN [element EXCEPT !.series =
            [ts \in DOMAIN element.series |->
                [idx \in set_time_steps_operation |-> element.series[ts][idx_old2new[idx]]]]]

\* variant: the time steps of the operation are never refined by the years
link_time_steps_not_refined(element, es) == [energy_system |-> es, element |-> element]

\* TimeSeriesAggregation.link_time_steps: the element and the time-step model afterwards
link_time_steps(element, es) ==
    LET unique_time_steps_sequences ==
            unique_time_steps_multiple_indices(es.sequence_time_steps_operation[element.name],
                                               es.sequence_time_steps_yearly)
    IN IF ~unique_time_steps_sequences.none
       THEN LET u == unique_time_steps_sequences
            IN [energy_system |-> set_sequence_time_steps(es, element.name, u.sequence_time_steps),
                element |-> set_time_attributes(
                    overwrite_ts_with_expanded_timeindex(element, u.set_time_steps, u.sequence_time_steps),
                    u.set_time_steps, u.time_steps_duration, u.sequence_time_steps)]
       ELSE [energy_system |-> es, element |-> element]

\* time_steps.set_time_steps_operation2year_both_dir
set_time_steps_operation2year_both_dir(es, name, sequence_operation, sequence_yearly) ==
    LET steps == {sequence_operation[b] : b \in DOMAIN sequence_operation}
        years == {sequence_yearly[b] : b \in DOMAIN sequence_yearly}
    IN [es EXCEPT
        !.time_steps_operation2year = (name :>
            [t \in steps |-> Max({sequence_yearly[b] : b \in {x \in DOMAIN sequence_operation :
                                                            sequence_operation[x] = t}})])
            @@ es.time_steps_operation2year,
        !.time_steps_year2operation = (name :>
            [y \in years |-> {sequence_operation[b] : b \in {x \in DOMAIN sequence_yearly :
                                                            sequence_yearly[x] = y}}])
            @@ es.time_steps_year2operation]

\* variant: the years of the time steps are taken from the repeated sequence, before
\* the time steps are linked
RepeatedElement_years_before_linking(element, es) ==
    LET optimized_years == Cardinality(es.set_time_steps_yearly)
        old_sequence_time_steps == element.sequence_time_steps
        new_sequence_time_steps == hstack(old_sequence_time_steps,
                                          Cardinality(DOMAIN old_sequence_time_steps), optimized_years)
        repeated == [element EXCEPT !.sequence_time_steps = new_sequence_time_steps]
        linked == link_time_steps(repeated,
                    set_sequence_time_steps(es, element.name, new_sequence_time_steps))
    IN [element |-> linked.element,
        energy_system |-> set_time_steps_operation2year_both_dir(linked.energy_system,
                            element.name, new_sequence_time_steps,
                            es.sequence_time_steps_yearly)]

\* one element in repeat_sequence_time_steps_for_all_years
RepeatedElement(element, es) ==
    LET optimized_years == Cardinality(es.set_time_steps_yearly)
        old_sequence_time_steps == element.sequence_time_steps
        new_sequence_time_steps == hstack(old_sequence_time_steps,
                                          Cardinality(DOMAIN old_sequence_time_steps), optimized_years)
        repeated == [element EXCEPT !.sequence_time_steps = new_sequence_time_steps]
        linked == link_time_steps(repeated,
                    set_sequence_time_steps(es, element.name, new_sequence_time_steps))
    IN [element |-> linked.element,
        energy_system |-> set_time_steps_operation2year_both_dir(linked.energy_system,
                            element.name, linked.element.sequence_time_steps,
                            es.sequence_time_steps_yearly)]

RECURSIVE repeat_sequence_from(_, _, _)
repeat_sequence_from(elems, es, i) ==
    IF i > Len(elems) THEN [elements |-> elems, energy_system |-> es]
    ELSE LET r == RepeatedElement(elems[i], es)
         IN repeat_sequence_from([elems EXCEPT ![i] = r.element], r.energy_system, i + 1)

\* TimeSeriesAggregation.repeat_sequence_time_steps_for_all_years
repeat_sequence_time_steps_for_all_years(elems, es) == repeat_sequence_from(elems, es, 1)

(***************************************************************************)
(* Time series aggregation: the systems, the elements with their raw time  *)
(* series of one year, and the run of TimeSeriesAggregation.__init__       *)
(***************************************************************************)
RawValues == {Num(1), Num(2)}

\* Carrier.store_input_data: an element carries its raw time series
RawElement(name, column) ==
    [name |-> name,
     raw_time_series |-> [ts \in {"demand_carrier"} |-> column],
     series |-> <<>>,
     set_time_steps_operation |-> {},
     time_steps_operation_duration |-> <<>>,
     sequence_time_steps |-> <<>>,
     aggregated |-> FALSE]

RawColumns == [0..(HoursPerYear - 1) -> RawValues]

\* the series of a second element: a constant one and an alternating one
RawProfiles == {[h \in 0..(HoursPerYear - 1) |-> Num(1 + (h % 2) * alternating)] : alternating \in {0, 1}}

\* no element, one element with any series, or two elements
ElementLists ==
    {<<>>}
    \cup {<<RawElement("c1", a)>> : a \in RawColumns}
    \cup {<<RawElement("c1", a), RawElement("c2", b)>> : a \in RawColumns, b \in RawProfiles}

\* system["exclude_parameters_from_TSA"] and read_input_data("exclude_parameter_from_TSA"):
\* the rows of the file, if it exists
ExcludedParameters ==
    {[exclude |-> FALSE, exists |-> FALSE, rows |-> {}],
     [exclude |-> TRUE, exists |-> FALSE, rows |-> {}],
     [exclude |-> TRUE, exists |-> TRUE, rows |-> {<<"c1", "demand_carrier">>}],
     [exclude |-> TRUE, exists |-> TRUE, rows |-> {<<"c2", "nan">>}]}

\* EnergySystem: the base time steps of one year, the years and the sequence of the years
EnergySystem(H, years) ==
    [set_base_time_steps_yearly |-> 0..(H - 1),
     set_time_steps_yearly |-> 0..(years - 1),
     sequence_time_steps_yearly |-> [b \in 0..(H * years - 1) |-> b \div H],
     sequence_time_steps_operation |-> <<>>,
     time_steps_operation2year |-> <<>>,
     time_steps_year2operation |-> <<>>]

InitTimeSeries ==
    /\ \E T \in 1..(HoursPerYear + 1), conduct \in BOOLEAN, method \in {"k_means", "k_medoids"},
          excluded \in ExcludedParameters :
            /\ system = [unaggregated_time_steps_per_year |-> HoursPerYear,
                         aggregated_time_steps_per_year |-> T,
                         conduct_time_series_aggregation |-> conduct,
                         exclude_parameters_from_TSA |-> excluded.exclude,
                         clusterMethod |-> method]
            /\ parameters = [exclude_parameter_from_TSA |-> excluded]
    /\ \E years \in 1..OptimizedYears : energy_system = EnergySystem(HoursPerYear, years)
    /\ dict_elements \in ElementLists
    /\ indexSets = <<>>
    /\ componentDocs = <<>>
    /\ calls = <<>>
    /\ tsa = NoTimeSeriesAggregation
    /\ sets = <<>>
    /\ variables = NoVariables
    /\ constraints = NoConstraints
    /\ docs = {}
    /\ objective = {}
    /\ listOfElements = <<>>
    /\ dictReversedEdges = <<>>
    /\ pc = "TimeSeriesAggregation.__init__"

\* TimeSeriesAggregation.__init__ up to repeat_sequence_time_steps_for_all_years;
\* an exception ends the run
TimeSeriesAggregationInit ==
    /\ pc = "TimeSeriesAggregation.__init__"
    /\ \E out \in
            IF Aggregates(system, energy_system)
            THEN LET agg == selected(system, dict_elements, parameters.exclude_parameter_from_TSA)
                 IN IF agg.df_ts_raw # {}
                    THEN {run_tsa(agg, system, dict_elements, energy_system, order) :
                            order \in ClusterOrders(system.unaggregated_time_steps_per_year,
                                                    agg.number_typical_periods)}
                    ELSE IF Cardinality(agg.excluded_ts) # 0
                    THEN {[tsa |-> agg, raised |-> "AssertionError", elements |-> dict_elements,
                           energy_system |-> energy_system]}
                    ELSE {single_ts_tsa(agg, system, dict_elements, energy_system)}
            ELSE {without_aggregation(
                    [NoTimeSeriesAggregation EXCEPT
                        !.number_typical_periods = number_typical_periods(system)],
                    system, dict_elements, energy_system)} :
        /\ tsa' = out.tsa
        /\ dict_elements' = out.elements
        /\ energy_system' = out.energy_system
        /\ pc' = IF out.raised = "none" THEN "repeat_sequence_time_steps_for_all_years"
                 ELSE out.raised
    /\ UNCHANGED <<indexSets, componentDocs, calls, sets, system, parameters, variables, constraints,
                   docs, objective, listOfElements, dictReversedEdges>>

\* the rest of __init__: repeat_sequence_time_steps_for_all_years
RepeatSequenceTimeSteps ==
    /\ pc = "repeat_sequence_time_steps_for_all_years"
    /\ LET r == repeat_sequence_time_steps_for_all_years(dict_elements, energy_system)
       IN /\ dict_elements' = r.elements
          /\ energy_system' = r.energy_system
    /\ pc' = "done"
    /\ UNCHANGED <<indexSets, componentDocs, calls, tsa, sets, system, parameters, variables,
                   constraints, docs, objective, listOfElements, dictReversedEdges>>

NextTimeSeries ==
    \/ TimeSeriesAggregationInit
    \/ RepeatSequenceTimeSteps

SpecTimeSeries == InitTimeSeries /\ [][NextTimeSeries]_vars

(***************************************************************************)
(* IndexSet, Variable and Constraint (component.py).  A doc is a sequence  *)
(* of words; a compiled doc string is the record of its parts.             *)
(***************************************************************************)
prohibited_strings == {",", ";", ":", "/", "name", "doc", "dims", "domain"}

RECURSIVE DropProhibited(_)
DropProhibited(doc) ==
    IF doc = <<>> THEN <<>>
    ELSE (IF Head(doc) \in prohibited_strings THEN <<>> ELSE <<Head(doc)>>)
         \o DropProhibited(Tail(doc))

\* Component.compile_doc_string ("-": no domain)
compile_doc_string(doc, index_list, name, domain) ==
    [name |-> name, doc |-> DropProhibited(doc), dims |-> index_list, domain |-> domain]

\* IndexSet.__init__
NoIndexSets == [sets |-> <<>>, docs |-> <<>>, index_sets |-> <<>>]

\* IndexSet.add_set ("None": no index_set is given)
IndexSet_add_set(ix, name, data, doc, index_set) ==
    [sets |-> (name :> data) @@ ix.sets,
     docs |-> (name :> doc) @@ ix.docs,
     index_sets |-> IF index_set # "None" THEN (name :> index_set) @@ ix.index_sets
                    ELSE ix.index_sets]

\* IndexSet.is_indexed and IndexSet.get_index_name
is_indexed(ix, name) == name \in DOMAIN ix.index_sets
get_index_name(ix, name) == IF is_indexed(ix, name) THEN ix.index_sets[name] ELSE "ValueError"

\* the domain that add_variable writes into the doc string
VariableDomain(integer, binary, bounds) ==
    IF integer THEN "Integers"
    ELSE IF binary THEN "Binary"
    ELSE IF bounds = "(0, inf)" THEN "NonNegativeReals"
    ELSE "Reals"

\* variant: a variable that is added again replaces the one of the model
Variable_add_variable_again(vs, d, name, index_values, index_list, integer, binary, bounds, doc) ==
    IF index_values = {} THEN [variables |-> vs, docs |-> d, raised |-> "IndexError"]
    ELSE [variables |-> add_variable(remove(vs, name), name, index_values, index_values, binary),
          docs |-> (name :> compile_doc_string(doc, index_list, name,
                                               VariableDomain(integer, binary, bounds))) @@ d,
          raised |-> "none"]

\* Variable.add_variable: the variables of the model and Variable.docs afterwards; the
\* variable exists at every tuple of its index
Variable_add_variable(vs, d, name, index_values, index_list, integer, binary, bounds, doc) ==
    IF name \notin DOMAIN d
    THEN IF index_values = {} THEN [variables |-> vs, docs |-> d, raised |-> "IndexError"]
         ELSE [variables |-> add_variable(vs, name, index_values, index_values, binary),
               docs |-> (name :> compile_doc_string(doc, index_list, name,
                                                    VariableDomain(integer, binary, bounds))) @@ d,
               raised |-> "none"]
    ELSE [variables |-> vs, docs |-> d, raised |-> "none"]

\* Constraint.add_constraint_block: the constraints of the model and Constraint.docs
Constraint_add_constraint_block(cons, d, name, rows, index_list, doc) ==
    [constraints |-> add_constraint_block(cons, DOMAIN d, name, rows),
     docs |-> IF name \notin DOMAIN d
              THEN (name :> compile_doc_string(doc, index_list, name, "-")) @@ d
              ELSE d,
     raised |-> "none"]

\* Constraint.add_constraint_rule: the constraints of the model and Constraint.docs
Constraint_add_constraint_rule(cons, d, name, index_values, index_list, rule(_), doc) ==
    LET b == add_constraint_rule(Building(cons, DOMAIN d), name, index_values, rule)
    IN [constraints |-> b.constraints,
        docs |-> IF name \notin DOMAIN d /\ b.raised = "none"
                 THEN (name :> compile_doc_string(doc, index_list, name, "-")) @@ d
                 ELSE d,
        raised |-> b.raised]

(***************************************************************************)
(* Components: any sequence of registrations with the builder              *)
(***************************************************************************)
SetNames == {"set_nodes", "set_input_carriers"}
SetData == {{"a"}, {"a", "b"}}
ParentSets == {"None", "set_conversion_technologies"}
Docs == {<<"flow">>, <<"flow", ":", "limit">>}
VariableNames == {"flow_import"}
ConstraintNames == {"constraint_availability"}
IndexValues == {{}, {"n1"}, {"n1", "n2"}}

\* the constraint that a rule returns at a tuple ({}: the rule returns None)
AvailabilityRule(node) ==
    {Row("-", "-", "c1", node, 0, {Term("flow_import", "-", "-", "c1", node, 0, One)}, "<=", Num(5))}
SkippingRule(node) == IF node = "n2" THEN {} ELSE AvailabilityRule(node)

Call(op, name, duplicate) == [op |-> op, name |-> name, duplicate |-> duplicate]

InitComponents ==
    /\ indexSets = NoIndexSets
    /\ componentDocs = [variables |-> <<>>, constraints |-> <<>>]
    /\ calls = [last |-> Call("none", "-", FALSE), add_set |-> <<>>]
    /\ variables = NoVariables
    /\ constraints = NoConstraints
    /\ sets = <<>>
    /\ system = <<>>
    /\ parameters = <<>>
    /\ docs = {}
    /\ objective = {}
    /\ listOfElements = <<>>
    /\ dictReversedEdges = <<>>
    /\ dict_elements = <<>>
    /\ tsa = <<>>
    /\ energy_system = <<>>
    /\ pc = "components"

\* IndexSet.add_set
AddSet ==
    /\ pc = "components"
    /\ \E name \in SetNames, data \in SetData, doc \in Docs, index_set \in ParentSets :
        /\ indexSets' = IndexSet_add_set(indexSets, name, data, doc, index_set)
        /\ calls' = [last |-> Call("add_set", name, name \in DOMAIN indexSets.sets),
                     add_set |-> (name :> [data |-> data, doc |-> doc, index_set |-> index_set])
                                 @@ calls.add_set]
    /\ UNCHANGED <<componentDocs, variables, constraints, pc, sets, system, parameters, docs,
                   objective, listOfElements, dictReversedEdges, dict_elements, tsa, energy_system>>

\* Variable.add_variable; an exception ends the run
AddVariable ==
    /\ pc = "components"
    /\ \E name \in VariableNames, index_values \in IndexValues, binary \in BOOLEAN,
          bounds \in {"None", "(0, inf)"}, doc \in Docs :
        LET r == Variable_add_variable(variables, componentDocs.variables, name, index_values,
                                       <<"set_nodes">>, FALSE, binary, bounds, doc)
        IN /\ variables' = r.variables
           /\ componentDocs' = [componentDocs EXCEPT !.variables = r.docs]
           /\ pc' = IF r.raised = "none" THEN pc ELSE r.raised
           /\ calls' = [calls EXCEPT !.last =
                            Call("add_variable", name, name \in DOMAIN componentDocs.variables)]
    /\ UNCHANGED <<indexSets, constraints, sets, system, parameters, docs,
                   objective, listOfElements, dictReversedEdges, dict_elements, tsa, energy_system>>

\* Constraint.add_constraint_block
AddConstraintBlock ==
    /\ pc = "components"
    /\ \E name \in ConstraintNames, index_values \in IndexValues \ {{}}, doc \in Docs :
        LET r == Constraint_add_constraint_block(constraints, componentDocs.constraints, name,
                    UNION {AvailabilityRule(x) : x \in index_values}, <<"set_nodes">>, doc)
        IN /\ constraints' = r.constraints
           /\ componentDocs' = [componentDocs EXCEPT !.constraints = r.docs]
           /\ calls' = [calls EXCEPT !.last =
                            Call("add_constraint_block", name, name \in DOMAIN componentDocs.constraints)]
    /\ UNCHANGED <<indexSets, variables, pc, sets, system, parameters, docs,
                   objective, listOfElements, dictReversedEdges, dict_elements, tsa, energy_system>>

\* Constraint.add_constraint_rule; an exception ends the run
AddConstraintRule ==
    /\ pc = "components"
    /\ \E name \in ConstraintNames, index_values \in IndexValues, skipping \in BOOLEAN, doc \in Docs :
        LET r == IF skipping
                 THEN Constraint_add_constraint_rule(constraints, componentDocs.constraints, name,
                            index_values, <<"set_nodes">>, SkippingRule, doc)
                 ELSE Constraint_add_constraint_rule(constraints, componentDocs.constraints, name,
                            index_values, <<"set_nodes">>, AvailabilityRule, doc)
        IN /\ constraints' = r.constraints
           /\ componentDocs' = [componentDocs EXCEPT !.constraints = r.docs]
           /\ pc' = IF r.raised = "none" THEN pc ELSE r.raised
           /\ calls' = [calls EXCEPT !.last =
                            Call("add_constraint_rule", name, name \in DOMAIN componentDocs.constraints)]
    /\ UNCHANGED <<indexSets, variables, sets, system, parameters, docs,
                   objective, listOfElements, dictReversedEdges, dict_elements, tsa, energy_system>>

NextComponents ==
    \/ AddSet
    \/ AddVariable
    \/ AddConstraintBlock
    \/ AddConstraintRule

SpecComponents == InitComponents /\ [][NextComponents]_vars

(***************************************************************************)
(* Rolling horizon: the existing capacities of a technology are updated    *)
(* with the decisions of every step of the horizon.  sets and parameters   *)
(* hold the attributes of the technology (set_technologies_existing,       *)
(* lifetime_existing, capacity_existing, capex_capacity_existing,          *)
(* capacity_investment_existing), the first yearly step of                 *)
(* sets.set_time_steps_yearly is the current step of the horizon.          *)
(***************************************************************************)
\* the technology of the rolling horizon and its locations
RollingTechnology == "stor"
RollingLocations == {"n1", "n2"}

\* the yearly steps of the entire horizon: every step but the last one is followed by an update
RollingYears == NumYears + 1

\* pd.Series.fillna(0) of a single value
fillna(v) == IF IsNaN(v) THEN 0 ELSE v.n

\* the attributes of a technology as Technology.get_if_capacity_still_existing reads them
ElementParameters(lifetime, lifetime_existing, capacity_existing, capex_capacity_existing,
                  capacity_investment_existing) ==
    [lifetime |-> lifetime,
     lifetime_existing |-> lifetime_existing,
     capacity_existing |-> capacity_existing,
     capex_capacity_existing |-> capex_capacity_existing,
     capacity_investment_existing |-> capacity_investment_existing]

\* variant: the new generation starts with the full lifetime of the technology
add_new_capacity_addition_tech_full_lifetime(s, sys, p, tech, capacity_addition, capex, step_horizon) ==
    LET ids == s.set_technologies_existing[tech]
        aged == [l \in DOMAIN p.lifetime_existing[tech] |->
                    [i \in DOMAIN p.lifetime_existing[tech][l] |->
                        Max({p.lifetime_existing[tech][l][i] - sys.interval_between_years, 0})]]
        new_capacity_addition == capacity_addition[step_horizon]
        new_capex == capex[step_horizon]
        all_zero == \A k \in DOMAIN new_capacity_addition :
                        \A l \in DOMAIN new_capacity_addition[k] : new_capacity_addition[k][l] = 0
        with_aged == [p EXCEPT !.lifetime_existing[tech] = aged]
    IN IF all_zero THEN [sets |-> s, parameters |-> with_aged, raised |-> "none"]
       ELSE IF ids = {} THEN [sets |-> s, parameters |-> with_aged, raised |-> "ValueError"]
       ELSE LET index_new_technology == Max(ids) + 1
                added(existing, new) ==
                    [k \in DOMAIN existing |->
                        IF k \in DOMAIN new
                        THEN [l \in DOMAIN existing[k] |->
                                (index_new_technology :> new[k][l]) @@ existing[k][l]]
                        ELSE existing[k]]
            IN [sets |-> [s EXCEPT !.set_technologies_existing[tech] =
                                        ids \cup {index_new_technology}],
                parameters |-> [p EXCEPT
                    !.lifetime_existing[tech] =
                        [l \in DOMAIN aged |-> (index_new_technology :> p.lifetime[tech]) @@ aged[l]],
                    !.capacity_existing[tech] = added(p.capacity_existing[tech], new_capacity_addition),
                    !.capex_capacity_existing[tech] =
                        added(p.capex_capacity_existing[tech], new_capex)],
                raised |-> "none"]

\* Technology.add_new_capacity_addition_tech: the remaining lifetimes are lowered by the
\* interval between the years and clipped at 0; if the additions of the step are not all
\* zero a new generation max(ids) + 1 is appended with the remaining lifetime
\* lifetime - interval and the additions and capex of the step; max() of an empty
\* set_technologies_existing raises ValueError after the lifetimes were lowered
add_new_capacity_addition_tech(s, sys, p, tech, capacity_addition, capex, step_horizon) ==
    LET ids == s.set_technologies_existing[tech]
        aged == [l \in DOMAIN p.lifetime_existing[tech] |->
                    [i \in DOMAIN p.lifetime_existing[tech][l] |->
                        Max({p.lifetime_existing[tech][l][i] - sys.interval_between_years, 0})]]
        new_capacity_addition == capacity_addition[step_horizon]
        new_capex == capex[step_horizon]
        all_zero == \A k \in DOMAIN new_capacity_addition :
                        \A l \in DOMAIN new_capacity_addition[k] : new_capacity_addition[k][l] = 0
        with_aged == [p EXCEPT !.lifetime_existing[tech] = aged]
    IN IF all_zero THEN [sets |-> s, parameters |-> with_aged, raised |-> "none"]
       ELSE IF ids = {} THEN [sets |-> s, parameters |-> with_aged, raised |-> "ValueError"]
       ELSE LET index_new_technology == Max(ids) + 1
                added(existing, new) ==
                    [k \in DOMAIN existing |->
                        IF k \in DOMAIN new
                        THEN [l \in DOMAIN existing[k] |->
                                (index_new_technology :> new[k][l]) @@ existing[k][l]]
                        ELSE existing[k]]
            IN [sets |-> [s EXCEPT !.set_technologies_existing[tech] =
                                        ids \cup {index_new_technology}],
                parameters |-> [p EXCEPT
                    !.lifetime_existing[tech] =
                        [l \in DOMAIN aged |->
                            (index_new_technology :> (p.lifetime[tech] - sys.interval_between_years))
                                @@ aged[l]],
                    !.capacity_existing[tech] = added(p.capacity_existing[tech], new_capacity_addition),
                    !.capex_capacity_existing[tech] =
                        added(p.capex_capacity_existing[tech], new_capex)],
                raised |-> "none"]

\* variant: the investments of the step are written in every case
add_new_capacity_investment_always(p, tech, capacity_investment, step_horizon) ==
    LET new_capacity_investment ==
            [k \in DOMAIN capacity_investment[step_horizon] |->
                [l \in DOMAIN capacity_investment[step_horizon][k] |->
                    fillna(capacity_investment[step_horizon][k][l])]]
    IN [p EXCEPT !.capacity_investment_existing[tech] =
            [k \in DOMAIN @ |->
                IF k \in DOMAIN new_capacity_investment
                THEN [l \in DOMAIN @[k] |->
                        (step_horizon :> new_capacity_investment[k][l]) @@ @[k][l]]
                ELSE @[k]]]

\* Technology.add_new_capacity_investment: missing investments count as 0; if the
\* investments of the step are not all zero they are written to the entry of the step
add_new_capacity_investment(p, tech, capacity_investment, step_horizon) ==
    LET new_capacity_investment ==
            [k \in DOMAIN capacity_investment[step_horizon] |->
                [l \in DOMAIN capacity_investment[step_horizon][k] |->
                    fillna(capacity_investment[step_horizon][k][l])]]
        all_zero == \A k \in DOMAIN new_capacity_investment :
                        \A l \in DOMAIN new_capacity_investment[k] : new_capacity_investment[k][l] = 0
    IN IF all_zero THEN p
       ELSE [p EXCEPT !.capacity_investment_existing[tech] =
                [k \in DOMAIN @ |->
                    IF k \in DOMAIN new_capacity_investment
                    THEN [l \in DOMAIN @[k] |->
                            (step_horizon :> new_capacity_investment[k][l]) @@ @[k][l]]
                    ELSE @[k]]]

\* the existing generations at the start: none, one, two
InitialGenerations == {{}, {0}, {0, 1}}

\* the capacity additions of a step by capacity type and location: none, one, all
CapacityAdditions ==
    {[k \in CapacityTypesOf(RollingTechnology) |-> [l \in RollingLocations |-> 0]],
     [k \in CapacityTypesOf(RollingTechnology) |-> [l \in RollingLocations |->
        IF k = "power" /\ l = "n1" THEN 3 ELSE 0]],
     [k \in CapacityTypesOf(RollingTechnology) |-> [l \in RollingLocations |->
        (IF k = "power" THEN 3 ELSE 6) + (IF l = "n1" THEN 0 ELSE 1)]]}

\* the capex of the additions of a step
CapexOf(addition) ==
    [k \in DOMAIN addition |-> [l \in DOMAIN addition[k] |->
        IF addition[k][l] = 0 THEN 0 ELSE 10 * addition[k][l] + 1]]

\* the investments of a step: zero or missing everywhere, and some with a missing one
CapacityInvestments ==
    {[k \in CapacityTypesOf(RollingTechnology) |-> [l \in RollingLocations |->
        IF k = "power" /\ l = "n1" THEN NaN ELSE Zero]],
     [k \in CapacityTypesOf(RollingTechnology) |-> [l \in RollingLocations |->
        IF k = "power" /\ l = "n1" THEN Num(2)
        ELSE IF k = "energy" /\ l = "n2" THEN NaN ELSE Zero]]}

\* the technology before the first step of the horizon
InitRollingHorizon ==
    /\ \E ids \in InitialGenerations, lifetime \in 1..MaxLifetime, dy \in 1..MaxInterval :
        /\ sets = [set_technologies_existing |-> [h \in {RollingTechnology} |-> ids],
                   set_time_steps_yearly |-> YearList(0, RollingYears)]
        /\ system = [interval_between_years |-> dy]
        /\ parameters = ElementParameters(
                [h \in {RollingTechnology} |-> lifetime],
                [h \in {RollingTechnology} |-> [l \in RollingLocations |->
                    [i \in ids |-> IF i = 0 THEN 1 ELSE MaxLifetime]]],
                [h \in {RollingTechnology} |-> [k \in CapacityTypesOf(h) |->
                    [l \in RollingLocations |-> [i \in ids |-> 5 + i]]]],
                [h \in {RollingTechnology} |-> [k \in CapacityTypesOf(h) |->
                    [l \in RollingLocations |-> [i \in ids |-> 50 + i]]]],
                [h \in {RollingTechnology} |-> [k \in CapacityTypesOf(h) |->
                    [l \in RollingLocations |-> [y \in 0..(RollingYears - 1) |-> 10 + y]]]])
    /\ calls = [last |-> [op |-> "none", step_horizon |-> -1], added |-> <<>>]
    /\ variables = <<>>
    /\ constraints = <<>>
    /\ docs = {}
    /\ objective = {}
    /\ listOfElements = <<>>
    /\ dictReversedEdges = <<>>
    /\ indexSets = <<>>
    /\ componentDocs = <<>>
    /\ dict_elements = <<>>
    /\ tsa = <<>>
    /\ energy_system = <<>>
    /\ pc = "add_new_capacity_addition_tech"

\* the current step of the horizon
step_horizon == sets.set_time_steps_yearly[1]

\* Technology.add_new_capacity_addition_tech with the additions of the current step, as
\* long as a further step follows; calls records the additions and the step in which
\* every generation was added
AddNewCapacityAdditionTech ==
    /\ pc = "add_new_capacity_addition_tech"
    /\ Len(sets.set_time_steps_yearly) > 1
    /\ \E addition \in CapacityAdditions :
        LET updated == add_new_capacity_addition_tech(sets, system, parameters, RollingTechnology,
                            (step_horizon :> addition), (step_horizon :> CapexOf(addition)),
                            step_horizon)
            new_ids == updated.sets.set_technologies_existing[RollingTechnology]
                            \ sets.set_technologies_existing[RollingTechnology]
        IN /\ sets' = updated.sets
           /\ parameters' = updated.parameters
           /\ calls' = [last |-> [op |-> "add_new_capacity_addition_tech",
                                  step_horizon |-> step_horizon,
                                  capacity_addition |-> addition, capex |-> CapexOf(addition)],
                        added |-> [i \in new_ids |-> step_horizon] @@ calls.added]
           /\ pc' = IF updated.raised = "none" THEN "add_new_capacity_investment"
                    ELSE updated.raised
    /\ UNCHANGED <<system, variables, constraints, docs, objective, listOfElements,
                   dictReversedEdges, indexSets, componentDocs, dict_elements, tsa, energy_system>>

\* Technology.add_new_capacity_investment with the investments of the current step; the
\* horizon then moves on by one step
AddNewCapacityInvestment ==
    /\ pc = "add_new_capacity_investment"
    /\ \E investment \in CapacityInvestments :
        /\ parameters' = add_new_capacity_investment(parameters, RollingTechnology,
                                (step_horizon :> investment), step_horizon)
        /\ calls' = [calls EXCEPT !.last = [op |-> "add_new_capacity_investment",
                                            step_horizon |-> step_horizon,
                                            capacity_investment |-> investment]]
    /\ sets' = [sets EXCEPT !.set_time_steps_yearly = YearList(step_horizon + 1, RollingYears)]
    /\ pc' = "add_new_capacity_addition_tech"
    /\ UNCHANGED <<system, variables, constraints, docs, objective, listOfElements,
                   dictReversedEdges, indexSets, componentDocs, dict_elements, tsa, energy_system>>

NextRollingHorizon ==
    \/ AddNewCapacityAdditionTech
    \/ AddNewCapacityInvestment

SpecRollingHorizon == InitRollingHorizon /\ [][NextRollingHorizon]_vars

(***************************************************************************)
(* Properties of the nodal energy balance                                  *)
(***************************************************************************)
BalanceRows == constraints["constraint_nodal_energy_balance"]
BalanceRowsOf(c, n) == {r \in BalanceRows : r.carrier = c /\ r.loc = n}

\* C1: in the balance of every (carrier c, node n), every transport technology with
\* reference carrier c adds (flow - loss) for exactly the edges entering n and
\* subtracts flow for exactly the edges leaving n.
C1_TransportSignsAsClaimed ==
    Built("constraint_nodal_energy_balance") =>
        \A c \in set_carriers, n \in set_nodes : \A r \in BalanceRowsOf(c, n) :
            \A h \in set_transport_technologies, e \in set_edges :
                InList(c, sets.set_reference_carriers[h]) =>
                    /\ Coef(r, "carrier_flow", h, "-", "-", e, -1) =
                            XSub(IF e \in calculate_connected_edges(n, "in") THEN One ELSE Zero,
                                 IF e \in calculate_connected_edges(n, "out") THEN One ELSE Zero)
                    /\ Coef(r, "carrier_loss", h, "-", "-", e, -1) =
                            (IF e \in calculate_connected_edges(n, "in") THEN XNeg(One) ELSE Zero)

RowsOf(name) == IF Built(name) THEN constraints[name] ELSE {}
RowsAt(name, h, k, loc, y) ==
    {r \in RowsOf(name) : r.tech = h /\ r.capacity_type = k /\ r.loc = loc /\ r.year = y}

YearlySteps == Range(sets.set_time_steps_yearly)
EntireHorizon == Range(sets.set_time_steps_yearly_entire_horizon)
DeltaY == system.interval_between_years

\* the least number of yearly steps that cover a duration of d years
StepsCovering(d) == CHOOSE n \in 0..d : n * DeltaY >= d /\ \A m \in 0..(n - 1) : m * DeltaY < d

\* C3: the lifetime constraint of every (h, k, loc, y) is capacity[h,k,loc,y] minus the
\* capacity additions of exactly the years max(y0, y - ceil(lifetime/DeltaY) + 1) .. y,
\* equal to the existing capacity that survives at y.
C3_LifetimeWindowCeil ==
    Built("constraint_technology_lifetime") =>
        \A x \in TechnologyIndex(sets) :
            LET h == x[1]
                y == x[4]
                y0 == sets.set_time_steps_yearly[1]
                window == Max({y0, y - StepsCovering(parameters.lifetime[h]) + 1})..y
            IN /\ Cardinality(RowsAt("constraint_technology_lifetime", h, x[2], x[3], y)) = 1
               /\ \A r \in RowsAt("constraint_technology_lifetime", h, x[2], x[3], y) :
                    /\ r.sign = "=="
                    /\ Coef(r, "capacity", h, x[2], "-", x[3], y) = One
                    /\ \A py \in YearlySteps :
                            Coef(r, "capacity_addition", h, x[2], "-", x[3], py) =
                                (IF py \in window THEN XNeg(One) ELSE Zero)
                    /\ r.rhs = get_available_existing_quantity(sets, system, parameters,
                                                               h, x[2], x[3], y)

\* C4: with kappa = ceil(construction_time/DeltaY), the construction-time constraint of
\* every (h, k, loc, y) is capacity_addition[y] = capacity_investment[y - kappa] if
\* y - kappa is a yearly step of the current horizon, capacity_addition[y] =
\* capacity_investment_existing[y - kappa] if y - kappa is another step of the entire
\* horizon, and capacity_addition[y] = 0 otherwise.
C4_ConstructionTime ==
    Built("constraint_technology_construction_time") =>
        \A x \in TechnologyIndex(sets) :
            LET h == x[1]
                y == x[4]
                start == y - StepsCovering(parameters.construction_time[h])
                rows == RowsAt("constraint_technology_construction_time", h, x[2], x[3], y)
            IN /\ Cardinality(rows) = 1
               /\ \A r \in rows :
                    /\ r.sign = "=="
                    /\ Coef(r, "capacity_addition", h, x[2], "-", x[3], y) = One
                    /\ \A py \in YearlySteps :
                            Coef(r, "capacity_investment", h, x[2], "-", x[3], py) =
                                (IF py = start THEN XNeg(One) ELSE Zero)
                    /\ r.rhs = (IF start \in EntireHorizon \ YearlySteps
                                THEN Num(parameters.capacity_investment_existing[h][x[2]][x[3]][start])
                                ELSE Zero)
                    /\ Cardinality(r.lhs) = (IF start \in YearlySteps THEN 2 ELSE 1)

\* witness of C4: a horizon that starts at step 1, a yearly interval of 2 and a
\* construction time of 1 (kappa = 1) for conv1: its addition of step 2 is the
\* investment of step 1, its addition of step 1 the investment taken before the
\* horizon in step 0; the addition of conv2 (kappa beyond the horizon) is 0
C4_Witness ==
    /\ Built("constraint_technology_construction_time")
    /\ sets.set_time_steps_yearly[1] = 1
    /\ DeltaY = 2
    /\ parameters.construction_time["conv1"] = 1
    /\ \E r \in RowsAt("constraint_technology_construction_time", "conv1", "power", "n1", 2) :
            /\ Coef(r, "capacity_investment", "conv1", "power", "-", "n1", 1) = XNeg(One)
            /\ r.rhs = Zero
    /\ \E r \in RowsAt("constraint_technology_construction_time", "conv1", "power", "n1", 1) :
            /\ Cardinality(r.lhs) = 1
            /\ r.rhs = Num(parameters.capacity_investment_existing["conv1"]["power"]["n1"][0])
            /\ r.rhs # Zero
    /\ \E r \in RowsAt("constraint_technology_construction_time", "conv2", "power", "n1", 1) :
            /\ Cardinality(r.lhs) = 1
            /\ r.rhs = Zero

\* the diffusion rows of (h, y), per location and for the total fleet
DiffusionRows(h, y) ==
    {r \in RowsOf("constraint_technology_diffusion_limit")
            \cup RowsOf("constraint_technology_diffusion_limit_total") :
        r.tech = h /\ r.year = y}

\* C5: for every technology h and year y with max_diffusion_rate[h, y] = +inf neither
\* the per-location nor the total-fleet diffusion limit holds a row of (h, y).
C5_NoDiffusionLimitForInfiniteRate ==
    Built("constraint_technology_diffusion_limit_total") =>
        \A h \in set_technologies, y \in YearlySteps :
            parameters.max_diffusion_rate[h][y] = Inf => DiffusionRows(h, y) = {}

\* C6: the right-hand side of every per-location diffusion limit is the knowledge stock
\* of the existing capacities times ((1 + max_diffusion_rate)^DeltaY - 1) plus
\* capacity_addition_unbounded times DeltaY.
C6_UnboundedAdditionTimesInterval ==
    \A r \in RowsOf("constraint_technology_diffusion_limit") :
        r.rhs = XAdd(XMul(XSub(XPow(XAdd(One, parameters.max_diffusion_rate[r.tech][r.year]),
                                    DeltaY), One),
                          KnowledgeExisting(sets, system, parameters, r.tech, r.capacity_type,
                                            r.loc, r.year, TRUE)),
                     XMul(parameters.capacity_addition_unbounded[r.tech], Num(DeltaY)))

\* C7: in the per-location diffusion limit of a transport technology or of an edge (with
\* a finite diffusion rate) the additions and the existing capacities of the other
\* locations do not enter: no capacity_addition of another location appears and the
\* right-hand side is built from the existing capacity of the location alone.
C7_NoSpilloverForTransport ==
    \A r \in RowsOf("constraint_technology_diffusion_limit") :
        (r.tech \in set_transport_technologies \/ r.loc \in set_edges)
            /\ IsFinite(parameters.max_diffusion_rate[r.tech][r.year]) =>
                /\ \A l2 \in set_location \ {r.loc}, py \in YearlySteps :
                        Coef(r, "capacity_addition", r.tech, r.capacity_type, "-", l2, py) = Zero
                /\ r.rhs = XAdd(XMul(tdr(system, parameters, r.tech, r.year),
                                     KnowledgeExisting(sets, system, parameters, r.tech,
                                                       r.capacity_type, r.loc, r.year, FALSE)),
                                parameters.capacity_addition_unbounded[r.tech])

\* the kind of a technology: conversion, transport or storage
KindOf(h) ==
    IF h \in set_conversion_technologies THEN "conversion"
    ELSE IF h \in set_transport_technologies THEN "transport" ELSE "storage"

\* C8: in the diffusion limit of technology h no capacity_previous of a technology of
\* another kind appears, whatever its reference carrier.
C8_MarketShareSameKindOnly ==
    \A r \in RowsOf("constraint_technology_diffusion_limit") :
        \A ot \in set_technologies, l \in set_location, y \in YearlySteps :
            KindOf(ot) # KindOf(r.tech) =>
                Coef(r, "capacity_previous", ot, r.capacity_type, "-", l, y) = Zero

MaxAdditionRows(h, k) ==
    {r \in RowsOf("constraint_technology_max_capacity_addition") :
        r.tech = h /\ r.capacity_type = k}

\* the row -capacity_addition[h,k,loc,y] + coef * technology_installation[h,k,loc,y] >= 0
\* (without the installation term if coef = 0)
MaxAdditionRow(h, k, loc, y, coef) ==
    Row(h, k, "-", loc, y,
        {Term("capacity_addition", h, k, "-", loc, y, XNeg(One))}
            \cup (IF coef = Zero THEN {}
                  ELSE {Term("technology_installation", h, k, "-", loc, y, coef)}),
        ">=", Zero)

MaxAdditionRowsFor(h, k, coef) ==
    {MaxAdditionRow(h, k, x[3], x[4], coef) :
        x \in {z \in TechnologyIndex(sets) : z[1] = h /\ z[2] = k}}

TechCapacityPairs == {<<x[1], x[2]>> : x \in TechnologyIndex(sets)}

\* C9 as stated: a finite nonzero maximum gives capacity_addition <= max *
\* technology_installation for every location and year, a maximum of zero and an
\* infinite maximum give no row, so that capacity_addition is not restricted.
C9_ZeroMaximumIsNoOp ==
    Built("constraint_technology_max_capacity_addition") =>
        \A hk \in TechCapacityPairs :
            LET dmax == parameters.capacity_addition_max[hk[1]][hk[2]]
            IN MaxAdditionRows(hk[1], hk[2]) =
                    (IF dmax \in {Zero, Inf} THEN {}
                     ELSE MaxAdditionRowsFor(hk[1], hk[2], dmax))

\* C9, amended: a finite nonzero maximum gives capacity_addition <= max *
\* technology_installation for every location and year; a maximum of zero gives
\* capacity_addition <= 0 for every location and year, without technology_installation;
\* an infinite maximum gives no row.
C9_MaxCapacityAddition ==
    Built("constraint_technology_max_capacity_addition") =>
        \A hk \in TechCapacityPairs :
            LET dmax == parameters.capacity_addition_max[hk[1]][hk[2]]
            IN MaxAdditionRows(hk[1], hk[2]) =
                    (IF dmax = Inf THEN {}
                     ELSE MaxAdditionRowsFor(hk[1], hk[2], dmax))

\* witness of C9: the constraint is built for a system in which conv1 has a maximum
\* addition of zero (a row without installation term), pipe a finite one and conv2 none
C9_Witness ==
    /\ Built("constraint_technology_max_capacity_addition")
    /\ parameters.capacity_addition_max["conv1"]["power"] = Zero
    /\ parameters.capacity_addition_max["pipe"]["power"] = Num(5)
    /\ \E r \in MaxAdditionRows("conv1", "power") :
            r.lhs = {Term("capacity_addition", "conv1", "power", "-", r.loc, r.year, XNeg(One))}
    /\ \E r \in MaxAdditionRows("pipe", "power") :
            Coef(r, "technology_installation", "pipe", "power", "-", r.loc, r.year) = Num(5)

(***************************************************************************)
(* Properties of the transport technologies of the pyomo model             *)
(***************************************************************************)
BidirectionalRows(h) ==
    {r \in RowsOf("constraintBidirectionalTransportTechnology") : r.tech = h}

\* the edges that run between the nodes of e in the other direction
ReverseOf(e) ==
    {e2 \in Range(sets.setEdges) :
        /\ sets.setNodesOnEdges[e2][1] = sets.setNodesOnEdges[e][2]
        /\ sets.setNodesOnEdges[e2][2] = sets.setNodesOnEdges[e][1]}

\* C10: once the constraints are built, a transport technology declared bidirectional
\* has for every edge e and invest step y exactly the row
\* builtCapacity[h, e, y] - builtCapacity[h, reverse(e), y] = 0, and a transport
\* technology not declared bidirectional has no row at all.
C10_BidirectionalTransport ==
    Built("constraintBidirectionalTransportTechnology") =>
        \A i \in DOMAIN system.setTransportTechnologies :
            LET h == system.setTransportTechnologies[i]
            IN IF InList(h, system.setBidirectionalTransportTechnologies)
               THEN \A e \in Range(sets.setEdges), y \in sets.setTimeStepsInvest :
                        \E e2 \in ReverseOf(e) :
                            {r \in BidirectionalRows(h) : r.loc = e /\ r.year = y} =
                                {Row(h, "power", "-", e, y,
                                     {Term("builtCapacity", h, "power", "-", e, y, One),
                                      Term("builtCapacity", h, "power", "-", e2, y, XNeg(One))},
                                     "==", Zero)}
               ELSE BidirectionalRows(h) = {}

\* witness of C10: the constraints are built for a system in which pipeline is
\* bidirectional and truck is not; the row of pipeline on n1-n2 refers to n2-n1
C10_Witness ==
    /\ Built("constraintBidirectionalTransportTechnology")
    /\ system.setBidirectionalTransportTechnologies = <<"pipeline">>
    /\ BidirectionalRows("truck") = {}
    /\ \E r \in BidirectionalRows("pipeline") :
            /\ r.loc = "n1-n2"
            /\ Coef(r, "builtCapacity", "pipeline", "power", "-", "n2-n1", r.year) = XNeg(One)
            /\ Coef(r, "builtCapacity", "pipeline", "power", "-", "n1-n2", r.year) = One

\* the names of the transport technologies constructed so far
ElementNames == {listOfElements[i].name : i \in DOMAIN listOfElements}

\* the existing capacities of h differ on some edge and its reversed edge
ExistingCapacityMismatch(h) ==
    \E e \in Range(sets.setEdges) : \E e2 \in ReverseOf(e) :
        parameters[h].existingCapacity[e] # parameters[h].existingCapacity[e2]

\* construction of the transport technologies has passed on to the model
TransportConstructed ==
    pc \in {"TransportTechnology.constructConstraints", "ObjectiveFunction.__init__", "done"}

\* the input of h passes every other test of storeInputData: a capex attribute is
\* there and, for a bidirectional technology, every edge has a reversed edge
OtherInputValid(h) ==
    /\ system.DoubleCapexTransport \/ parameters[h].attributes # {}
    /\ InList(h, system.setBidirectionalTransportTechnologies) =>
            \A e \in Range(sets.setEdges) : ReverseOf(e) # {}

\* C11: a bidirectional transport technology whose existing capacities differ on an
\* edge and its reversed edge is never constructed: it is not added to the elements,
\* construction never passes on to the model and no constraint is ever built, and with
\* otherwise valid input its construction ends in the AssertionError.  A bidirectional
\* technology whose edge pairs all match (input otherwise valid) is not the one that
\* fails, and once it is constructed the reversed-edge map holds reverse(e) for every edge.
C11_BidirectionalExistingCapacity ==
    \A i \in DOMAIN system.setTransportTechnologies :
        LET h == system.setTransportTechnologies[i]
            next == Len(listOfElements) + 1
        IN InList(h, system.setBidirectionalTransportTechnologies) =>
            /\ ExistingCapacityMismatch(h) =>
                    /\ h \notin ElementNames
                    /\ ~TransportConstructed
                    /\ constraints = NoConstraints
                    /\ (i = next /\ OtherInputValid(h)
                            /\ pc # "TransportTechnology.__init__") => pc = "AssertionError"
            /\ (~ExistingCapacityMismatch(h) /\ OtherInputValid(h)) =>
                    /\ (i = next) => pc = "TransportTechnology.__init__"
                    /\ h \in ElementNames =>
                            /\ DOMAIN dictReversedEdges = Range(sets.setEdges)
                            /\ \A e \in Range(sets.setEdges) :
                                    dictReversedEdges[e] \in ReverseOf(e)

\* witness of C11: pipeline (bidirectional, matching capacities) is constructed and the
\* map holds both edges; the construction of truck (bidirectional, capacities that
\* differ) has ended in the AssertionError with no constraint built
C11_Witness ==
    /\ system.setBidirectionalTransportTechnologies = <<"pipeline", "truck">>
    /\ ~ExistingCapacityMismatch("pipeline")
    /\ ExistingCapacityMismatch("truck")
    /\ ElementNames = {"pipeline"}
    /\ DOMAIN dictReversedEdges = Range(sets.setEdges)
    /\ pc = "AssertionError"
    /\ constraints = NoConstraints

(***************************************************************************)
(* The binary variable technology_installation                             *)
(***************************************************************************)
VarsConstructed == "capacity" \in DOMAIN variables
InstallationCreated == "technology_installation" \in DOMAIN variables

\* the active tuples with a non-zero coefficient in the fixed-cost term of a transport
\* technology, in the min-addition term and in the max-addition term
FixedCostTuples ==
    {x \in TechnologyIndex(sets) :
        /\ x[1] \in set_transport_technologies
        /\ XMul(parameters.distance[x[1]][x[3]],
                parameters.capex_per_distance_transport[x[1]][x[3]]) # Zero}
MinAdditionTuples ==
    {x \in TechnologyIndex(sets) : parameters.capacity_addition_min[x[1]][x[2]] # Zero}
MaxAdditionTuples ==
    {x \in TechnologyIndex(sets) : parameters.capacity_addition_max[x[1]][x[2]] \notin {Zero, Inf}}

\* C12 as stated: technology_installation is created if and only if some active tuple has a
\* non-zero coefficient in a fixed-cost term or in a min-addition term.
C12_BinaryOnlyForFixedCostOrMinAddition ==
    VarsConstructed =>
        (InstallationCreated <=> (FixedCostTuples \cup MinAdditionTuples # {}))

\* C12 amended: technology_installation is created if and only if some active tuple has a
\* non-zero coefficient in a fixed-cost term, in a min-addition term or in a max-addition term
\* (maximum addition finite and not zero); it is binary and exists at exactly these tuples;
\* when there is no such tuple, construct_vars adds no binary variable.
C12_InstallationBinary ==
    VarsConstructed =>
        LET needed == FixedCostTuples \cup MinAdditionTuples \cup MaxAdditionTuples
        IN /\ InstallationCreated <=> (needed # {})
           /\ InstallationCreated =>
                /\ variables["technology_installation"].binary
                /\ variables["technology_installation"].mask = needed
           /\ ~InstallationCreated => BinaryVariables \subseteq {"tech_on_var", "tech_off_var"}
           /\ \A n \in DOMAIN TechnologyContinuousVariables(sets) :
                n \in DOMAIN variables /\ ~variables[n].binary

\* the binary variable was created for the maximum addition of conv1 and of the power of
\* stor alone: no fixed cost and no minimum addition anywhere
C12_Witness ==
    /\ VarsConstructed
    /\ InstallationCreated
    /\ FixedCostTuples = {}
    /\ MinAdditionTuples = {}
    /\ variables["technology_installation"].mask =
            {x \in TechnologyIndex(sets) : x[1] = "conv1" \/ (x[1] = "stor" /\ x[2] = "power")}

(***************************************************************************)
(* The binary variables of the on/off behaviour                            *)
(***************************************************************************)
OnOffVariables == {"tech_on_var", "tech_off_var"}

\* the rows that the disjuncts added for a technology
DisjunctRows(h) ==
    UNION {{r \in constraints[n] : r.tech = h} :
           n \in {"disjunct_on_technology", "disjunct_off_technology"} \cap DOMAIN constraints}

CarrierRowsAt(name, c, n, t) ==
    IF name \in DOMAIN constraints
    THEN {r \in constraints[name] : r.carrier = c /\ r.loc = n /\ r.year = t}
    ELSE {}

\* the yearly availability of a flow is as claimed: no row for +inf, and for a finite
\* value the row  sum over the steps of the year of duration * flow <= availability
YearlyAvailabilityAsClaimed(name, flow, availability) ==
    \A c \in set_carriers, n \in set_nodes, y \in Range(sets.set_time_steps_yearly) :
        IF availability[c][n][y] = Inf
        THEN CarrierRowsAt(name, c, n, y) = {}
        ELSE \E r \in CarrierRowsAt(name, c, n, y) :
                /\ CarrierRowsAt(name, c, n, y) = {r}
                /\ r.sign = "<=" /\ r.rhs = availability[c][n][y]
                /\ \A t \in sets.set_time_steps_operation :
                        Coef(r, flow, "-", "-", c, n, t) =
                            IF convert_time_step_operation2year(t) = y
                            THEN parameters.time_steps_operation_duration[c][t] ELSE Zero

\* C14: the assembly of the carrier constraints completes without error; a tuple with a
\* yearly import (export) availability of +inf gets no yearly-availability constraint, a
\* tuple with a finite one gets  sum_{t in y} duration_t * flow[c,n,t] <= availability.
C14_YearlyAvailabilitySkipsInfinite ==
    pc # "Carrier.construct_constraints" =>
        /\ pc = "done"
        /\ YearlyAvailabilityAsClaimed("constraint_availability_carrier_import_yearly",
                "import_carrier_flow", parameters.availability_carrier_import_yearly)
        /\ YearlyAvailabilityAsClaimed("constraint_availability_carrier_export_yearly",
                "export_carrier_flow", parameters.availability_carrier_export_yearly)

(***************************************************************************)
(* Carrier: shed demand                                                    *)
(***************************************************************************)
\* C15: for a carrier with a finite shed_demand_price the model holds
\* cost_shed_demand = price * shed_demand at every node and step, for a price of +inf it
\* holds shed_demand = 0; in both cases shed_demand <= demand.
C15_ShedDemand ==
    (Built("constraint_cost_shed_demand") /\ Built("constraint_limit_shed_demand")) =>
        \A c \in set_carriers, n \in set_nodes, t \in sets.set_time_steps_operation :
            /\ \E r \in CarrierRowsAt("constraint_cost_shed_demand", c, n, t) :
                    /\ CarrierRowsAt("constraint_cost_shed_demand", c, n, t) = {r}
                    /\ r.sign = "==" /\ r.rhs = Zero
                    /\ IF parameters.shed_demand_price[c] = Inf
                       THEN r.lhs = {Term("shed_demand_carrier", "-", "-", c, n, t, One)}
                       ELSE /\ Coef(r, "cost_shed_demand_carrier", "-", "-", c, n, t) = One
                            /\ Coef(r, "shed_demand_carrier", "-", "-", c, n, t)
                                    = XNeg(parameters.shed_demand_price[c])
                            /\ \A term \in r.lhs :
                                    /\ term.var \in {"cost_shed_demand_carrier", "shed_demand_carrier"}
                                    /\ <<term.carrier, term.loc, term.year>> = <<c, n, t>>
            /\ \E r \in CarrierRowsAt("constraint_limit_shed_demand", c, n, t) :
                    /\ CarrierRowsAt("constraint_limit_shed_demand", c, n, t) = {r}
                    /\ r.lhs = {Term("shed_demand_carrier", "-", "-", c, n, t, One)}
                    /\ r.sign = "<=" /\ r.rhs = parameters.demand_carrier[c][n]

\* both cases in one model: shed demand of c1 is forbidden, that of c2 costs 50
C15_Witness ==
    /\ pc = "done"
    /\ parameters.shed_demand_price["c1"] = Inf
    /\ parameters.shed_demand_price["c2"] = Num(50)
    /\ \E r \in CarrierRowsAt("constraint_cost_shed_demand", "c1", "n1", 0) :
            r.lhs = {Term("shed_demand_carrier", "-", "-", "c1", "n1", 0, One)}
    /\ \E r \in CarrierRowsAt("constraint_cost_shed_demand", "c2", "n1", 0) :
            Coef(r, "shed_demand_carrier", "-", "-", "c2", "n1", 0) = Num(-50)
    /\ \E r \in CarrierRowsAt("constraint_limit_shed_demand", "c2", "n1", 0) : r.rhs = Num(11)

(***************************************************************************)
(* The total-cost objective                                                *)
(***************************************************************************)
\* the coefficient of a yearly total in the objective
ObjectiveCoef(name, y) ==
    LET ts == {t \in objective : t.var = name /\ t.year = y}
    IN XSum(ts, [t \in ts |-> t.coef])

\* the technologies of the system, of every kind
TechnologiesPresent ==
    Range(system.setProductionTechnologies) \cup Range(system.setTransportTechnologies)
        \cup Range(system.setStorageTechnologies)

\* C16: the total-cost objective is the sum over the yearly steps of cost_capex_total,
\* cost_opex_total, cost_carrier_total and the priced carbon_emissions_total, and the
\* costs of every technology of the system, whatever its kind, are part of it.
C16_TotalCostObjective ==
    (pc = "done" /\ TransportConstructed) =>
        /\ \A y \in sets.setTimeStepsInvest :
                /\ ObjectiveCoef("cost_capex_total", y) = One
                /\ ObjectiveCoef("cost_opex_total", y) = One
                /\ ObjectiveCoef("cost_carrier_total", y) = One
                /\ ObjectiveCoef("carbon_emissions_total", y) # Zero
        /\ \A tech \in TechnologiesPresent :
                \/ \E t \in objective : t.tech = tech
                \/ \E y \in sets.setTimeStepsInvest :
                        ObjectiveCoef("cost_capex_total", y) # Zero

\* C16, second sentence: in a model whose yearly total was built, cost_carrier_total[y]
\* is the duration-weighted sum of cost_carrier and cost_shed_demand_carrier over the
\* carriers, the nodes and the operational steps of y.
CostCarrierTotalAsClaimed ==
    Built("constraint_cost_carrier_total") =>
        \A y \in Range(sets.set_time_steps_yearly) :
            \E r \in constraints["constraint_cost_carrier_total"] :
                /\ r.year = y /\ r.sign = "==" /\ r.rhs = Zero
                /\ Coef(r, "cost_carrier_total", "-", "-", "-", "-", y) = One
                /\ \A c \in set_carriers, n \in set_nodes, t \in sets.set_time_steps_operation :
                    LET d == IF convert_time_step_operation2year(t) = y
                             THEN XNeg(parameters.time_steps_operation_duration[c][t]) ELSE Zero
                    IN /\ Coef(r, "cost_carrier", "-", "-", c, n, t) = d
                       /\ Coef(r, "cost_shed_demand_carrier", "-", "-", c, n, t) = d

(***************************************************************************)
(* Properties of the time series aggregation                               *)
(***************************************************************************)
H == system.unaggregated_time_steps_per_year
AfterAggregation == pc \in {"repeat_sequence_time_steps_for_all_years", "done"}
TimeSeriesRaised == pc \in {"AttributeError", "AssertionError", "NotImplementedError"}

RECURSIVE SumOver(_, _)
SumOver(S, f) ==
    IF S = {} THEN 0 ELSE LET x == CHOOSE y \in S : TRUE IN f[x] + SumOver(S \ {x}, f)

WithoutAggregation ==
    \/ system.aggregated_time_steps_per_year >= system.unaggregated_time_steps_per_year
    \/ ~system.conduct_time_series_aggregation

\* the time steps of one year are the base time steps, each of duration 1, in their order
BaseTimeSteps ==
    /\ tsa.set_time_steps = 0..(H - 1)
    /\ \A t \in tsa.set_time_steps : tsa.time_steps_duration[t] = 1
    /\ \A b \in 0..(H - 1) : tsa.sequence_time_steps[b] = b

\* C17: with T >= H or with the aggregation switched off, TimeSeriesAggregation
\* completes for every system, the operational time steps are the base time steps of
\* one year, every duration is 1, the sequence of one year is the identity, and the
\* aggregated series of every element equals its raw series.
C17_NoAggregationIsIdentity ==
    (WithoutAggregation /\ pc # "TimeSeriesAggregation.__init__") =>
        /\ AfterAggregation
        /\ BaseTimeSteps
        /\ pc = "repeat_sequence_time_steps_for_all_years" =>
                \A i \in DOMAIN dict_elements :
                    dict_elements[i].series = dict_elements[i].raw_time_series

\* C17, the part that holds: a run without aggregation that completes has the base
\* time steps as operational time steps
NoAggregationCompleted ==
    (WithoutAggregation /\ AfterAggregation) => BaseTimeSteps

AllConstant ==
    \A i \in DOMAIN dict_elements : \A ts \in DOMAIN dict_elements[i].raw_time_series :
        ~NonConstant(dict_elements[i].raw_time_series[ts])

WithAggregation ==
    /\ system.conduct_time_series_aggregation
    /\ system.aggregated_time_steps_per_year < system.unaggregated_time_steps_per_year

\* one time step 0 of duration H, every base hour of the year mapped to it, and every
\* series with its constant value on every operational time step
SingleTimeStep ==
    /\ tsa.set_time_steps = {0}
    /\ tsa.time_steps_duration[0] = H
    /\ \A b \in 0..(H - 1) : tsa.sequence_time_steps[b] = 0
    /\ \A i \in DOMAIN dict_elements : \A ts \in DOMAIN dict_elements[i].raw_time_series :
            /\ DOMAIN dict_elements[i].series[ts] = dict_elements[i].set_time_steps_operation
            /\ \A t \in dict_elements[i].set_time_steps_operation :
                    dict_elements[i].series[ts][t] = dict_elements[i].raw_time_series[ts][0]

NothingExcluded ==
    get_excluded_ts(system, dict_elements, parameters.exclude_parameter_from_TSA) = {}

YearOf(b) == b \div H
StepsOfYear(element, y) ==
    {element.sequence_time_steps[b] : b \in {x \in DOMAIN element.sequence_time_steps : YearOf(x) = y}}

\* C19: after the aggregation and the linking, the operational time steps of every
\* element are 0..N-1, the duration of a time step is the number of base hours that the
\* sequence maps to it, and the durations of the time steps of a year sum to H.
C19_StepsDurationsAndYears ==
    pc = "done" =>
        \A i \in DOMAIN dict_elements :
            LET e == dict_elements[i]
                N == Cardinality(e.set_time_steps_operation)
            IN /\ N >= 1
               /\ e.set_time_steps_operation = 0..(N - 1)
               /\ DOMAIN e.time_steps_operation_duration = e.set_time_steps_operation
               /\ DOMAIN e.sequence_time_steps =
                        0..(H * Cardinality(energy_system.set_time_steps_yearly) - 1)
               /\ \A t \in e.set_time_steps_operation :
                        e.time_steps_operation_duration[t] = CountOf(e.sequence_time_steps, t)
               /\ \A y \in energy_system.set_time_steps_yearly :
                        SumOver(StepsOfYear(e, y), e.time_steps_operation_duration) = H

C19_Witness ==
    /\ pc = "done"
    /\ Cardinality(energy_system.set_time_steps_yearly) = 2
    /\ tsa.conducted_tsa
    /\ \E i \in DOMAIN dict_elements :
            /\ Cardinality(dict_elements[i].set_time_steps_operation) = 4
            /\ \E t \in dict_elements[i].set_time_steps_operation :
                    dict_elements[i].time_steps_operation_duration[t] = 2

\* C20 as stated: after the time series stage the sequence of every element is periodic
\* with the period H, sequence[b + H] = sequence[b].
C20_SequencePeriodic ==
    pc = "done" =>
        \A i \in DOMAIN dict_elements :
            LET sequence == dict_elements[i].sequence_time_steps
            IN \A b \in DOMAIN sequence :
                    (b + H) \in DOMAIN sequence => sequence[b + H] = sequence[b]

\* C20: after the time series stage the sequence of every element covers the horizon
\* and is the sequence of one year repeated for every year and refined by the year: two
\* base hours have the same operational time step exactly when they are in the same
\* year and the sequence of one year gives their hours the same time step; the time-step
\* model holds the same sequence.
C20_SequenceRepeatedAndRefined ==
    pc = "done" =>
        \A i \in DOMAIN dict_elements :
            LET sequence == dict_elements[i].sequence_time_steps
            IN /\ DOMAIN sequence = 0..(H * Cardinality(energy_system.set_time_steps_yearly) - 1)
               /\ energy_system.sequence_time_steps_operation[dict_elements[i].name] = sequence
               /\ \A b1 \in DOMAIN sequence, b2 \in DOMAIN sequence :
                    (sequence[b1] = sequence[b2]) <=>
                        /\ YearOf(b1) = YearOf(b2)
                        /\ tsa.sequence_time_steps[b1 % H] = tsa.sequence_time_steps[b2 % H]

C20_Witness ==
    /\ pc = "done"
    /\ Cardinality(energy_system.set_time_steps_yearly) = 2
    /\ \E i \in DOMAIN dict_elements :
            LET sequence == dict_elements[i].sequence_time_steps
            IN /\ sequence[H] # sequence[0]
               /\ tsa.sequence_time_steps[0] = tsa.sequence_time_steps[1]
               /\ sequence[0] = sequence[1]

\* C21: after the linking, for every element the year of an operational time step has
\* that time step among its operational time steps, the time steps of different years
\* are disjoint, and the year of sequence[b] is b \div H for every base hour b.
C21_TimeStepsOfOneYear ==
    pc = "done" =>
        \A i \in DOMAIN dict_elements :
            LET e == dict_elements[i]
                operation2year == energy_system.time_steps_operation2year[e.name]
                year2operation == energy_system.time_steps_year2operation[e.name]
            IN /\ DOMAIN operation2year = e.set_time_steps_operation
               /\ DOMAIN year2operation = energy_system.set_time_steps_yearly
               /\ \A t \in e.set_time_steps_operation : t \in year2operation[operation2year[t]]
               /\ \A y1 \in DOMAIN year2operation, y2 \in DOMAIN year2operation :
                    y1 # y2 => year2operation[y1] \cap year2operation[y2] = {}
               /\ \A b \in DOMAIN e.sequence_time_steps :
                    operation2year[e.sequence_time_steps[b]] = YearOf(b)

C21_Witness ==
    /\ pc = "done"
    /\ Cardinality(energy_system.set_time_steps_yearly) = 2
    /\ \E i \in DOMAIN dict_elements :
            LET e == dict_elements[i]
            IN /\ Cardinality(e.set_time_steps_operation) = 4
               /\ energy_system.time_steps_operation2year[e.name][e.sequence_time_steps[H]] = 1
               /\ Cardinality(energy_system.time_steps_year2operation[e.name][0]) = 2

(***************************************************************************)
(* Properties of the components                                            *)
(***************************************************************************)
\* C22: after any sequence of add_set calls the data and the doc of a name, and whether
\* and by which set it is indexed, are those of the latest add_set call for the name.
C22_LatestAddSet ==
    \A name \in DOMAIN calls.add_set :
        LET latest == calls.add_set[name]
        IN /\ indexSets.sets[name] = latest.data
           /\ indexSets.docs[name] = latest.doc
           /\ is_indexed(indexSets, name) <=> latest.index_set # "None"
           /\ latest.index_set # "None" => get_index_name(indexSets, name) = latest.index_set

\* C22, the parts that hold: the data and the doc are those of the latest call, and a
\* call that repeats the latest call of the name leaves the IndexSet as it is
LatestDataAndDoc ==
    \A name \in DOMAIN calls.add_set :
        /\ indexSets.sets[name] = calls.add_set[name].data
        /\ indexSets.docs[name] = calls.add_set[name].doc

AddSetIdempotent ==
    [][(/\ calls'.last.op = "add_set"
        /\ calls'.last.name \in DOMAIN calls.add_set
        /\ calls'.add_set = calls.add_set) => indexSets' = indexSets]_vars

ComponentsUnchanged ==
    /\ indexSets' = indexSets
    /\ componentDocs' = componentDocs
    /\ variables' = variables
    /\ constraints' = constraints

\* C23 as stated: a set, a variable or a constraint (block or rule) registered under a
\* name that is registered already is ignored: the components, the doc strings and the
\* model are after the call what they were before.
C23_DuplicateIgnored ==
    [][calls'.last.duplicate => ComponentsUnchanged]_vars

\* C23: a variable or a constraint (block or rule) registered under a name that is
\* registered already is ignored, the components, the doc strings and the model stay
\* what they were; a set registered again gets the data and the doc of the new call.
C23_DuplicateVariableOrConstraintIgnored ==
    [][/\ (calls'.last.duplicate /\ calls'.last.op # "add_set") => ComponentsUnchanged
       /\ (calls'.last.duplicate /\ calls'.last.op = "add_set") =>
            /\ indexSets'.sets[calls'.last.name] = calls'.add_set[calls'.last.name].data
            /\ indexSets'.docs[calls'.last.name] = calls'.add_set[calls'.last.name].doc
            /\ componentDocs' = componentDocs /\ variables' = variables
            /\ constraints' = constraints]_vars

C23_Witness ==
    /\ calls.last.duplicate
    /\ calls.last.op = "add_variable"
    /\ "constraint_availability" \in DOMAIN constraints
    /\ "set_nodes" \in DOMAIN indexSets.sets


(***************************************************************************)
(* technology_installation in the constraints                              *)
(***************************************************************************)
\* the tuples at which the binary variable exists
InstallationMask ==
    IF InstallationCreated THEN variables["technology_installation"].mask ELSE {}

\* the terms of a constraint in technology_installation
InstallationTerms(name) ==
    {t \in UNION {r.lhs : r \in RowsOf(name)} : t.var = "technology_installation"}

TupleOf(t) == <<t.tech, t.capacity_type, t.loc, t.year>>

OnOffTuples == {x \in TechnologyIndex(sets) : x[1] \in sets.set_on_off}

\* the stock of existing capacity in the row of the lifetime constraint: the capacity
\* without any addition
SurvivingStock(x) ==
    (CHOOSE r \in RowsAt("constraint_technology_lifetime", x[1], x[2], x[3], x[4]) : TRUE).rhs

\* the capacity limit permits the value v at x
LimitPermits(x, v) ==
    \A r \in RowsAt("constraint_technology_capacity_limit", x[1], x[2], x[3], x[4]) :
        XLeq(v, r.rhs)

\* C25: for every technology with on/off behaviour and every (k, loc, y), the upper bound
\* of capacity and of capacity_previous is the capacity that the maximum additions of the
\* horizon can reach on top of the existing stock that survives at y in the lifetime
\* constraint, capped by the capacity limit on top of that stock, and the capacity without
\* any addition (permitted by the lifetime, maximum-addition and limit constraints) does
\* not exceed it; the other technologies have the upper bound +inf.
C25_BigMIsProvableBound ==
    pc = "done" =>
        \A n \in {"capacity", "capacity_previous"} : \A x \in TechnologyIndex(sets) :
            LET upper == variables[n].upper[x]
                stock == SurvivingStock(x)
                by_addition == XAdd(XMul(Num(Len(sets.set_time_steps_yearly)),
                                         parameters.capacity_addition_max[x[1]][x[2]]), stock)
                by_limit == XAdd(parameters.capacity_limit[x[1]][x[2]][x[3]][x[4]], stock)
            IN IF x \in OnOffTuples
               THEN /\ upper = (IF XLeq(by_addition, by_limit) THEN by_addition ELSE by_limit)
                    /\ LimitPermits(x, stock) => XLeq(stock, upper)
               ELSE upper = Inf


(***************************************************************************)
(* Existing generations in the lifetime constraint                         *)
(***************************************************************************)
\* the existing generations of h at loc whose remaining lifetime has not elapsed in year y
GenerationsWithLifetimeLeft(h, loc, y) ==
    {i \in sets.set_technologies_existing[h] :
        (y - sets.set_time_steps_yearly[1] + 1) * DeltaY <= parameters.lifetime_existing[h][loc][i]}

\* C26: the existing capacity that the lifetime constraint counts in year y is the
\* capacity of the existing generations i with (y - y0 + 1) * DeltaY <=
\* lifetime_existing[h,loc,i], also for a generation with lifetime_existing >= lifetime_h
\* (so that the surviving quantity is non-increasing in y and ends at 0).
C26_ExistingCountsWhileLifetimeLeft ==
    Built("constraint_technology_lifetime") =>
        \A x \in TechnologyIndex(sets) :
            LET ids == GenerationsWithLifetimeLeft(x[1], x[3], x[4])
            IN SurvivingStock(x) =
                XSum(ids, [i \in ids |-> Num(parameters.capacity_existing[x[1]][x[2]][x[3]][i])])


(***************************************************************************)
(* Properties of the rolling horizon                                       *)
(***************************************************************************)
ExistingIdsOf(s) == s.set_technologies_existing[RollingTechnology]
LifetimeExistingOf(p) == p.lifetime_existing[RollingTechnology]

\* the model of the current step is built from the attributes of the technology
ModelOfStep == pc = "add_new_capacity_addition_tech"

\* the yearly steps of a single horizon
SingleHorizon == [set_time_steps_yearly |-> YearList(0, RollingYears)]

\* generation i counts as surviving in year y at loc in the model of the current step
Surviving(i, y, loc) ==
    get_if_capacity_still_existing(sets, system, parameters, RollingTechnology, y, loc, i)

\* C27: in the model of every step of the horizon, a generation that an earlier step s
\* added is counted as surviving in year y if and only if s lies in the lifetime range
\* of y that the lifetime constraint uses inside a single horizon.
C27_RollingHorizonAgreesWithLifetimeRange ==
    ModelOfStep =>
        \A i \in DOMAIN calls.added : \A y \in Range(sets.set_time_steps_yearly) :
            \A loc \in RollingLocations :
                Surviving(i, y, loc) <=>
                    calls.added[i] \in get_lifetime_range(SingleHorizon, system, parameters,
                                                          RollingTechnology, y)

\* witness of C27: in the model of step 2 the generation added in step 0 has expired and
\* the generation added in step 1 survives in year 2
C27_Witness ==
    /\ ModelOfStep
    /\ step_horizon = 2
    /\ \E i, j \in DOMAIN calls.added :
            /\ calls.added[i] = 0 /\ calls.added[j] = 1
            /\ ~Surviving(i, 2, "n1")
            /\ Surviving(j, 2, "n1")

\* a step of add_new_capacity_addition_tech, of add_new_capacity_investment
AdditionStep == pc = "add_new_capacity_addition_tech" /\ pc' # pc
InvestmentStep == pc = "add_new_capacity_investment" /\ pc' # pc

AllZero(values) == \A k \in DOMAIN values : \A l \in DOMAIN values[k] : values[k][l] = 0

\* every stored remaining lifetime of before the update is lowered by DeltaY, clipped at 0
Aged ==
    \A loc \in RollingLocations : \A i \in ExistingIdsOf(sets) :
        LifetimeExistingOf(parameters')[loc][i] =
            Max({LifetimeExistingOf(parameters)[loc][i] - system.interval_between_years, 0})

\* C28: after every update of add_new_capacity_addition_tech every remaining lifetime in
\* lifetime_existing is >= 0, and the update lowers every remaining lifetime stored
\* before by DeltaY, clipped at 0.
C28_RemainingLifetimesNotNegative ==
    [][AdditionStep =>
        /\ Aged
        /\ \A loc \in RollingLocations : \A i \in DOMAIN LifetimeExistingOf(parameters')[loc] :
                LifetimeExistingOf(parameters')[loc][i] >= 0]_vars

\* C29: an update whose additions are not all zero adds exactly one generation, with an
\* id above every id of set_technologies_existing (from any set of existing
\* generations, the empty one included), and with the additions and the capex of the
\* step as existing capacity and existing capex of every capacity type and location.
C29_OneNewGeneration ==
    [][(AdditionStep /\ ~AllZero(calls'.last.capacity_addition)) =>
        \E new \in ExistingIdsOf(sets') :
            /\ ExistingIdsOf(sets') = ExistingIdsOf(sets) \cup {new}
            /\ \A i \in ExistingIdsOf(sets) : i < new
            /\ \A k \in CapacityTypesOf(RollingTechnology) : \A loc \in RollingLocations :
                /\ parameters'.capacity_existing[RollingTechnology][k][loc][new] =
                        calls'.last.capacity_addition[k][loc]
                /\ parameters'.capex_capacity_existing[RollingTechnology][k][loc][new] =
                        calls'.last.capex[k][loc]]_vars

\* C30: an update whose additions are all zero leaves set_technologies_existing,
\* capacity_existing and capex_capacity_existing unchanged and lowers the remaining
\* lifetimes only; add_new_capacity_investment leaves capacity_investment_existing
\* unchanged if the investments of the step are all zero or missing, and otherwise writes
\* the investments (0 for a missing one) to the entry of the step and changes no other.
C30_ZeroUpdatesChangeNothing ==
    [][/\ (AdditionStep /\ AllZero(calls'.last.capacity_addition)) =>
            /\ sets' = sets
            /\ parameters'.capacity_existing = parameters.capacity_existing
            /\ parameters'.capex_capacity_existing = parameters.capex_capacity_existing
            /\ parameters'.capacity_investment_existing = parameters.capacity_investment_existing
            /\ DOMAIN LifetimeExistingOf(parameters') = DOMAIN LifetimeExistingOf(parameters)
            /\ Aged
       /\ InvestmentStep =>
            LET new == [k \in CapacityTypesOf(RollingTechnology) |-> [l \in RollingLocations |->
                            fillna(calls'.last.capacity_investment[k][l])]]
                before == parameters.capacity_investment_existing[RollingTechnology]
                after == parameters'.capacity_investment_existing[RollingTechnology]
            IN /\ [parameters' EXCEPT !.capacity_investment_existing = 0] =
                        [parameters EXCEPT !.capacity_investment_existing = 0]
               /\ AllZero(new) => after = before
               /\ ~AllZero(new) =>
                    \A k \in CapacityTypesOf(RollingTechnology) : \A l \in RollingLocations :
                        /\ DOMAIN after[k][l] = DOMAIN before[k][l]
                        /\ \A y \in DOMAIN after[k][l] :
                                after[k][l][y] = IF y = calls'.last.step_horizon THEN new[k][l]
                                                 ELSE before[k][l][y]]_vars

\* witness of C30: the update of step 0 had no additions (no generation was added, the
\* remaining lifetime 1 of generation 0 is used up) and the investments of the step, one
\* of them missing, were written to the entry of step 0
C30_Witness ==
    /\ calls.last.op = "add_new_capacity_investment"
    /\ calls.last.step_horizon = 0
    /\ ~AllZero([k \in CapacityTypesOf(RollingTechnology) |-> [l \in RollingLocations |->
                    fillna(calls.last.capacity_investment[k][l])]])
    /\ calls.added = <<>>
    /\ ExistingIdsOf(sets) = {0, 1}
    /\ LifetimeExistingOf(parameters)["n1"][0] = 0
    /\ parameters.capacity_investment_existing[RollingTechnology]["power"]["n1"][0] = 2
    /\ parameters.capacity_investment_existing[RollingTechnology]["energy"]["n2"][0] = 0
    /\ parameters.capacity_investment_existing[RollingTechnology]["power"]["n1"][1] = 11

====
